---- MODULE Spec2Model ----
(***************************************************************************)
(* Connections Canvas: a board of draggable word tiles.                    *)
(*                                                                         *)
(* Two variants of the App component are modelled:                         *)
(*   Spec        src/App.tsx: setup dialog, selection, AI hints, solved    *)
(*               groups (locked tiles).                                    *)
(*   SpecLayout  Spec with the Grid View button (reset positions).         *)
(*   SpecCanvas  src/unnamed/part_002: infinite canvas with a viewport     *)
(*               (pan, pinch and wheel zoom), scaled tile drags, reset     *)
(*               layout, daily puzzle load.                                *)
(*   SpecDialog  src/App.tsx with the setup dialog (part_003) and the      *)
(*               share link; strings are sequences of character codes,     *)
(*               JSON and base64 are computed.                             *)
(*   SpecAsync   the asynchronous operations of both variants, with weak   *)
(*               fairness on the settling of each pending call.            *)
(*   SpecCalls   the functions of src/services/geminiService.ts and the    *)
(*               layout and reset functions, each applied once to an       *)
(*               input drawn from a bounded set.                           *)
(*   SpecTaps    the canvas with taps and drags on its first five tiles.   *)
(*   SpecTiles   every operation of both variants, with the Shuffle and    *)
(*               Grid View buttons.                                        *)
(*   SpecMount   SpecCanvas from before its mount effect, which may run    *)
(*               twice.                                                    *)
(* Numbers that the code computes with floating point are exact rationals  *)
(* here (records [n, d] in lowest terms).                                  *)
(***************************************************************************)
EXTENDS Integers, Sequences, FiniteSets, TLC

(***************************************************************************)
(* Exact rational arithmetic                                               *)
(***************************************************************************)
Abs(a) == IF a < 0 THEN -a ELSE a

RECURSIVE GCD(_, _)
GCD(a, b) == IF b = 0 THEN a ELSE GCD(b, a % b)

Rat(n, d) ==
    LET g == GCD(Abs(n), Abs(d))
        s == IF d < 0 THEN -1 ELSE 1
    IN  [n |-> (s * n) \div g, d |-> (s * d) \div g]

RI(k) == [n |-> k, d |-> 1]

RAdd(p, q) == Rat(p.n * q.d + q.n * p.d, p.d * q.d)
RSub(p, q) == Rat(p.n * q.d - q.n * p.d, p.d * q.d)
RMul(p, q) == Rat(p.n * q.n, p.d * q.d)
RDiv(p, q) == Rat(p.n * q.d, p.d * q.n)
RLe(p, q) == p.n * q.d <= q.n * p.d
RMin(p, q) == IF RLe(p, q) THEN p ELSE q
RMax(p, q) == IF RLe(p, q) THEN q ELSE p

(***************************************************************************)
(* Bounds of the model                                                     *)
(***************************************************************************)
\* number of completed tile drags
MaxDrags == 1
\* largest value of the millisecond clock read by Date.now()
MaxTime == 1
\* number of boards loaded through initializeBoard
MaxLoads == 2
\* number of groups applied to one board
MaxSolved == 2
\* number of canvas events that pan, zoom or start a tile drag
MaxGestures == 2
\* number of runs of the canvas mount effect
MaxMounts == 2

(***************************************************************************)
(* Program constants                                                       *)
(***************************************************************************)
GROUP_COLORS == << "bg-yellow-500", "bg-green-500", "bg-blue-500", "bg-purple-500" >>
MaxSelected == 4
GroupSize == 4
BoardSize == 16

\* values of window.innerWidth
ScreenWidths == {200, 364, 1024}

\* screen deltas reported by the drag library for a completed drag
DragDeltas == { <<40, -30>> }
\* tiles (by index) that the user taps in src/App.tsx
TapTiles == { 0, 1, 2, 3, 4 }
\* tiles (by index) that the user drags in src/App.tsx
DragTiles == { 0 }
\* tiles (by index) that the user touches on the canvas
CanvasTiles == { 0 }
\* numbers of touch points the user has on the screen
TouchCounts == { 1, 2 }
\* screen deltas the drag library reports when a drag ends
DropDeltas == DragDeltas \cup { <<0, 0>> }
\* pointer positions (clientX, clientY)
Points == { <<0, 0>>, <<30, 10>> }
\* pointer positions at which a finger lands on the background
PressPoints == { <<0, 0>> }
\* distances between two touch points
Dists == { 100, 300 }
\* deltaY of wheel events
WheelDeltas == { -5000 }

NoGroup == [groupName |-> "", words |-> << >>]

VARIABLES
    words,          \* WordItem[]: the tiles on the board
    selectedIds,    \* Set<string>: the selection set
    now,            \* last value returned by Date.now()
    screenW,        \* window.innerWidth
    nDrags,         \* number of completed drags (bounded by MaxDrags)
    \* ---- src/App.tsx
    isSetupOpen,    \* the setup dialog is shown
    isLoading,      \* an AI hint request is pending
    suggestions,    \* GroupSuggestion[] shown in the AI panel
    solvedGroups,   \* GroupSuggestion[] applied so far
    hintCall,       \* the pending getConnectionsHints calls (at most one)
    alertMsg,       \* text of the alert() being shown, "" if none
    boardEpoch,     \* number of boards loaded so far
    suggFor,        \* boardEpoch of the board the suggestion list was computed for
    urlChecked,     \* the mount effect that reads the p parameter has run
    lastOp,         \* "" or the handler call that just returned without changing state
    \* ---- src/unnamed/part_002
    viewport,       \* { x, y, scale }
    renderedScale,  \* viewport.scale as of the last render: the value the handlers close over
    layoutConfig,   \* { tileW, tileH }
    isPanning,      \* ref: a background pan is in progress
    lastPanPoint,   \* ref: pointer position of the last pan sample
    lastPinchDist,  \* ref: << >> (null) or << distance of the last pinch sample >>
    activeTouches,  \* ref: e.touches.length of the last touch event
    hasInitialized, \* ref: initializeBoard has run
    isInitializing, \* the loading screen is shown
    errorMsg,       \* "" (null) or the error banner text
    initCalls,      \* number of initApp invocations awaiting fetchDailyPuzzle
    touches,        \* environment: number of touch points on the screen
    drag,           \* drag library: << >> or << the drag in progress >>
    nGestures,      \* number of pans, zooms and drag starts (bounded by MaxGestures)
    \* ---- src/unnamed/part_003 (InputModal)
    text,           \* the textarea: words and the separators between them
    error,          \* the message under the textarea, "" if none
    isAnalyzing,    \* a daily-puzzle search or an image analysis is pending
    modalCall,      \* the pending service calls of the dialog (at most one)
    \* ---- the browser
    clipboard,      \* << >> or << the link handleShare wrote to the clipboard >>
    \* ---- a function applied to an argument on its own
    call,           \* [fn, arg]: the function and its argument
    ret             \* << >> or << the value it returned >>

boardVars == << isSetupOpen, isLoading, suggestions, solvedGroups, hintCall,
                alertMsg, boardEpoch, suggFor, urlChecked >>

canvasVars == << viewport, renderedScale, layoutConfig, isPanning, lastPanPoint,
                 lastPinchDist, activeTouches, hasInitialized, isInitializing, errorMsg,
                 initCalls, touches, drag, nGestures >>

modalVars == << text, error, isAnalyzing, modalCall >>

otherVars == << modalVars, clipboard, call, ret >>

vars == << words, selectedIds, now, screenW, nDrags, boardVars, lastOp, canvasVars,
           otherVars >>

(***************************************************************************)
(* Sequence helpers                                                        *)
(***************************************************************************)
Range(s) == { s[i] : i \in 1..Len(s) }

\* Array.prototype.findIndex, 1-based; 0 when there is no match
FindIndexByText(ws, t) ==
    IF \E i \in 1..Len(ws) : ws[i].text = t
    THEN CHOOSE i \in 1..Len(ws) :
            /\ ws[i].text = t
            /\ \A j \in 1..(i - 1) : ws[j].text # t
    ELSE 0

Texts(ws) == [i \in 1..Len(ws) |-> ws[i].text]
Ids(ws) == { ws[i].id : i \in 1..Len(ws) }
TileById(ws, id) == ws[CHOOSE i \in 1..Len(ws) : ws[i].id = id]

(***************************************************************************)
(* JavaScript strings and JSON                                             *)
(*                                                                         *)
(* A string is the sequence of its character codes.  A parsed JSON value   *)
(* is a record [k, v]: k is the kind, v a sequence holding the content.    *)
(***************************************************************************)
\* character codes (ASCII) of the characters the texts below are written with
UpperCase == << "A", "B", "C", "D", "E", "F", "G", "H", "I", "J", "K", "L", "M",
                "N", "O", "P", "Q", "R", "S", "T", "U", "V", "W", "X", "Y", "Z" >>
LowerCase == << "a", "b", "c", "d", "e", "f", "g", "h", "i", "j", "k", "l", "m",
                "n", "o", "p", "q", "r", "s", "t", "u", "v", "w", "x", "y", "z" >>
Numerals == << "0", "1", "2", "3", "4", "5", "6", "7", "8", "9" >>

IndexIn(seq, c) == CHOOSE i \in 1..Len(seq) : seq[i] = c

Code(c) ==
    CASE c = "\"" -> 34 [] c = "," -> 44 [] c = "[" -> 91 [] c = "]" -> 93
      [] c = "{" -> 123 [] c = "}" -> 125 [] c = ":" -> 58 [] c = "\\" -> 92
      [] c = " " -> 32 [] c = "\n" -> 10 [] c = "\t" -> 9 [] c = "-" -> 45
      [] c = "/" -> 47 [] c = ";" -> 59 [] c = "~" -> 126 [] c = "BACKTICK" -> 96
      [] c = "OMEGA" -> 937 [] c = "." -> 46 [] c = "!" -> 33 [] c = "'" -> 39
      [] c \in { Numerals[i] : i \in 1..Len(Numerals) } -> 47 + IndexIn(Numerals, c)
      [] c \in { UpperCase[i] : i \in 1..Len(UpperCase) } -> 64 + IndexIn(UpperCase, c)
      [] c \in { LowerCase[i] : i \in 1..Len(LowerCase) } -> 96 + IndexIn(LowerCase, c)

\* the string written with the characters cs
Str(cs) == [i \in 1..Len(cs) |-> Code(cs[i])]

JNull == [k |-> "null", v |-> << >>]
JBool(b) == [k |-> "boolean", v |-> << b >>]
JNum(n) == [k |-> "number", v |-> << n >>]
JStr(s) == [k |-> "string", v |-> s]
JArr(items) == [k |-> "array", v |-> items]
\* an object: its properties in order, each << name, value >>
JObj(props) == [k |-> "object", v |-> props]
\* the value of a missing property
Undefined == [k |-> "undefined", v |-> << >>]

RECURSIVE Digits(_)
Digits(n) == IF n < 10 THEN << Code("0") + n >>
             ELSE Append(Digits(n \div 10), Code("0") + (n % 10))

\* a string literal: quotes and backslashes escaped
RECURSIVE Escaped(_)
Escaped(s) ==
    IF s = << >> THEN << >>
    ELSE (IF Head(s) \in { Code("\""), Code("\\") }
          THEN << Code("\\"), Head(s) >> ELSE << Head(s) >>) \o Escaped(Tail(s))

Quoted(s) == << Code("\"") >> \o Escaped(s) \o << Code("\"") >>

RECURSIVE Stringify(_)
RECURSIVE JoinItems(_)
RECURSIVE JoinProps(_)
\* JSON.stringify
Stringify(x) ==
    CASE x.k = "null" -> << Code("n"), Code("u"), Code("l"), Code("l") >>
      [] x.k = "boolean" -> IF x.v[1] THEN << Code("t"), Code("r"), Code("u"), Code("e") >>
                            ELSE << Code("f"), Code("a"), Code("l"), Code("s"), Code("e") >>
      [] x.k = "number" -> IF x.v[1] < 0 THEN << Code("-") >> \o Digits(-x.v[1])
                           ELSE Digits(x.v[1])
      [] x.k = "string" -> Quoted(x.v)
      [] x.k = "array" -> << Code("[") >> \o JoinItems(x.v) \o << Code("]") >>
      [] x.k = "object" -> << Code("{") >> \o JoinProps(x.v) \o << Code("}") >>

JoinItems(items) ==
    IF items = << >> THEN << >>
    ELSE Stringify(Head(items))
         \o (IF Len(items) > 1 THEN << Code(",") >> \o JoinItems(Tail(items)) ELSE << >>)

JoinProps(props) ==
    IF props = << >> THEN << >>
    ELSE Quoted(Head(props)[1]) \o << Code(":") >> \o Stringify(Head(props)[2])
         \o (IF Len(props) > 1 THEN << Code(",") >> \o JoinProps(Tail(props)) ELSE << >>)

\* the parser: every step returns [ok, v, i], i the position after what it read
Fail == [ok |-> FALSE, v |-> Undefined, i |-> 0]
Read(v, i) == [ok |-> TRUE, v |-> v, i |-> i]

IsSpace(c) == c \in { Code(" "), Code("\n") }
IsDigit(c) == c \in Code("0")..Code("9")

RECURSIVE SkipSpace(_, _)
SkipSpace(t, i) == IF i <= Len(t) /\ IsSpace(t[i]) THEN SkipSpace(t, i + 1) ELSE i

StartsWith(t, i, lit) ==
    /\ i + Len(lit) - 1 <= Len(t)
    /\ SubSeq(t, i, i + Len(lit) - 1) = lit

RECURSIVE ParseDigits(_, _, _)
ParseDigits(t, i, acc) ==
    IF i <= Len(t) /\ IsDigit(t[i])
    THEN ParseDigits(t, i + 1, acc * 10 + (t[i] - Code("0")))
    ELSE Read(acc, i)

\* the characters of a string literal, i just after the opening quote
RECURSIVE ParseChars(_, _, _)
ParseChars(t, i, acc) ==
    IF i > Len(t) THEN Fail
    ELSE IF t[i] = Code("\"") THEN Read(acc, i + 1)
    ELSE IF t[i] = Code("\\")
         THEN IF i + 1 <= Len(t) /\ t[i + 1] \in { Code("\""), Code("\\"), Code("/") }
              THEN ParseChars(t, i + 2, Append(acc, t[i + 1]))
              ELSE Fail
    ELSE IF t[i] < 32 THEN Fail
    ELSE ParseChars(t, i + 1, Append(acc, t[i]))

RECURSIVE ParseValue(_, _)
RECURSIVE ParseItems(_, _, _)
RECURSIVE ParseProps(_, _, _)
ParseValue(t, i0) ==
    LET i == SkipSpace(t, i0)
    IN  IF i > Len(t) THEN Fail
        ELSE IF StartsWith(t, i, Stringify(JNull)) THEN Read(JNull, i + 4)
        ELSE IF StartsWith(t, i, Stringify(JBool(TRUE))) THEN Read(JBool(TRUE), i + 4)
        ELSE IF StartsWith(t, i, Stringify(JBool(FALSE))) THEN Read(JBool(FALSE), i + 5)
        ELSE IF IsDigit(t[i])
             THEN LET r == ParseDigits(t, i, 0) IN Read(JNum(r.v), r.i)
        ELSE IF t[i] = Code("-") /\ i + 1 <= Len(t) /\ IsDigit(t[i + 1])
             THEN LET r == ParseDigits(t, i + 1, 0) IN Read(JNum(-r.v), r.i)
        ELSE IF t[i] = Code("\"")
             THEN LET r == ParseChars(t, i + 1, << >>)
                  IN  IF r.ok THEN Read(JStr(r.v), r.i) ELSE Fail
        ELSE IF t[i] = Code("[")
             THEN LET j == SkipSpace(t, i + 1)
                  IN  IF j <= Len(t) /\ t[j] = Code("]") THEN Read(JArr(<< >>), j + 1)
                      ELSE ParseItems(t, j, << >>)
        ELSE IF t[i] = Code("{")
             THEN LET j == SkipSpace(t, i + 1)
                  IN  IF j <= Len(t) /\ t[j] = Code("}") THEN Read(JObj(<< >>), j + 1)
                      ELSE ParseProps(t, j, << >>)
        ELSE Fail

\* the items of an array after "[" or ","
ParseItems(t, i, acc) ==
    LET r == ParseValue(t, i)
        j == SkipSpace(t, r.i)
    IN  IF ~r.ok \/ j > Len(t) THEN Fail
        ELSE IF t[j] = Code(",") THEN ParseItems(t, j + 1, Append(acc, r.v))
        ELSE IF t[j] = Code("]") THEN Read(JArr(Append(acc, r.v)), j + 1)
        ELSE Fail

\* the properties of an object after "{" or ","
ParseProps(t, i0, acc) ==
    LET i == SkipSpace(t, i0)
    IN  IF i > Len(t) \/ t[i] # Code("\"") THEN Fail
        ELSE LET n == ParseChars(t, i + 1, << >>)
                 c == SkipSpace(t, n.i)
             IN  IF ~n.ok \/ c > Len(t) \/ t[c] # Code(":") THEN Fail
                 ELSE LET r == ParseValue(t, c + 1)
                          j == SkipSpace(t, r.i)
                      IN  IF ~r.ok \/ j > Len(t) THEN Fail
                          ELSE IF t[j] = Code(",")
                               THEN ParseProps(t, j + 1, Append(acc, << n.v, r.v >>))
                          ELSE IF t[j] = Code("}")
                               THEN Read(JObj(Append(acc, << n.v, r.v >>)), j + 1)
                          ELSE Fail

\* JSON.parse: [ok |-> FALSE] stands for the SyntaxError it throws
JSONParse(t) ==
    LET r == ParseValue(t, 1)
    IN  IF r.ok /\ SkipSpace(t, r.i) = Len(t) + 1 THEN [ok |-> TRUE, v |-> r.v]
        ELSE [ok |-> FALSE, v |-> Undefined]

(***************************************************************************)
(* Base64 and the query string                                             *)
(*                                                                         *)
(* A token is a sequence of base64 digits 0..63 (62 is "+", 63 is "/"),    *)
(* PadChar for "=", SpaceChar for a space and BadChar for any character    *)
(* outside the base64 alphabet.                                            *)
(***************************************************************************)
PadChar == 64
SpaceChar == 65
BadChar == 66

\* the base64 digits of a sequence of bytes, padded to a multiple of four
EncodeBytes(s) ==
    LET n == Len(s)
        byte(i) == IF i <= n THEN s[i] ELSE 0
        digit(k) ==
            LET g == 3 * ((k - 1) \div 4)
                b1 == byte(g + 1)
                b2 == byte(g + 2)
                b3 == byte(g + 3)
            IN  CASE (k - 1) % 4 = 0 -> b1 \div 4
                  [] (k - 1) % 4 = 1 -> (b1 % 4) * 16 + (b2 \div 16)
                  [] (k - 1) % 4 = 2 -> IF g + 2 > n THEN PadChar
                                        ELSE (b2 % 16) * 4 + (b3 \div 64)
                  [] (k - 1) % 4 = 3 -> IF g + 3 > n THEN PadChar ELSE b3 % 64
    IN  [k \in 1..(4 * ((n + 2) \div 3)) |-> digit(k)]

\* btoa: [ok |-> FALSE] stands for the InvalidCharacterError it throws for a
\* character above U+00FF
btoa(s) ==
    IF \E i \in 1..Len(s) : s[i] > 255 THEN [ok |-> FALSE, v |-> << >>]
    ELSE [ok |-> TRUE, v |-> EncodeBytes(s)]

\* the bytes of a sequence of base64 digits (its length is not 1 modulo 4)
DecodeDigits(t) ==
    LET m == Len(t)
        d(i) == IF i <= m THEN t[i] ELSE 0
        byte(k) ==
            LET g == 4 * ((k - 1) \div 3)
            IN  CASE (k - 1) % 3 = 0 -> d(g + 1) * 4 + (d(g + 2) \div 16)
                  [] (k - 1) % 3 = 1 -> (d(g + 2) % 16) * 16 + (d(g + 3) \div 4)
                  [] (k - 1) % 3 = 2 -> (d(g + 3) % 4) * 64 + d(g + 4)
        partial == IF m % 4 = 0 THEN 0 ELSE (m % 4) - 1
    IN  [k \in 1..(3 * (m \div 4) + partial) |-> byte(k)]

\* atob (forgiving-base64 decode): [ok |-> FALSE] stands for the
\* InvalidCharacterError it throws
atob(data) ==
    LET noSpace == SelectSeq(data, LAMBDA c : c # SpaceChar)
        n == Len(noSpace)
        pads == IF n > 0 /\ n % 4 = 0 /\ noSpace[n] = PadChar
                THEN (IF noSpace[n - 1] = PadChar THEN 2 ELSE 1)
                ELSE 0
        digits == SubSeq(noSpace, 1, n - pads)
    IN  IF Len(digits) % 4 = 1 \/ \E i \in 1..Len(digits) : digits[i] \notin 0..63
        THEN [ok |-> FALSE, v |-> << >>]
        ELSE [ok |-> TRUE, v |-> DecodeDigits(digits)]

\* URLSearchParams.get of a value written into the query string as it is:
\* a "+" is read as a space
SearchParamValue(written) == [i \in 1..Len(written) |->
                                 IF written[i] = 62 THEN SpaceChar ELSE written[i]]

(***************************************************************************)
(* Word lists the environment can supply                                   *)
(***************************************************************************)
Distinct16 == << "A", "B", "C", "D", "E", "F", "G", "H",
                 "I", "J", "K", "L", "M", "N", "O", "P" >>
\* sixteen strings, one of them twice
Dup16 == << "A", "A", "B", "C", "D", "E", "F", "G",
            "H", "I", "J", "K", "L", "M", "N", "O" >>
Short15 == SubSeq(Distinct16, 1, 15)

\* decoded values of the p query parameter
UrlPayloads == { << >>, Distinct16, Dup16, Short15 }

\* word lists the setup dialog passes to onStart: sixteen unique words from
\* handleParse, sixteen extracted words from handleFileSelect
StartLists == { Distinct16, Dup16 }

(***************************************************************************)
(* src/App.tsx                                                             *)
(***************************************************************************)
NewTile(id, wordText, x, y) ==
    [id |-> id, text |-> wordText, x |-> x, y |-> y, groupColor |-> "", isLocked |-> FALSE]

\* initializeBoard: the tiles built from a word list at clock value t
initializeBoard_oneRow(newWordList, t, sw) ==
    LET cols == 4
        cardW == 160
        startX == Rat(sw - (cols * cardW), 2)
        startY == 100
    IN  [i \in 1..Len(newWordList) |->
            NewTile(<<i - 1, t>>, newWordList[i],
                    RAdd(startX, RI(((i - 1) % cols) * cardW)),
                    RI(startY))]

initializeBoard(newWordList, t, sw) ==
    LET cols == 4
        cardW == 160
        cardH == 100
        startX == Rat(sw - (cols * cardW), 2)
        startY == 100
    IN  [i \in 1..Len(newWordList) |->
            NewTile(<<i - 1, t>>, newWordList[i],
                    RAdd(startX, RI(((i - 1) % cols) * cardW)),
                    RI(startY + ((i - 1) \div cols) * cardH))]

\* handleToggleSelect: the updater passed to setSelectedIds
handleToggleSelect_nocap(prev, id) ==
    IF id \in prev THEN prev \ {id} ELSE prev \cup {id}

handleToggleSelect(prev, id) ==
    IF id \in prev THEN prev \ {id}
    ELSE IF Cardinality(prev) < MaxSelected THEN prev \cup {id}
    ELSE prev

\* handleDragEnd of src/App.tsx: the updater passed to setWords
handleDragEndApp(prev, id, delta) ==
    [i \in 1..Len(prev) |->
        IF prev[i].id = id
        THEN [prev[i] EXCEPT !.x = RAdd(@, RI(delta[1])), !.y = RAdd(@, RI(delta[2]))]
        ELSE prev[i]]

\* applySuggestion: the tiles whose text the suggestion names
WordsToGroup(ws, suggestion) ==
    SelectSeq(ws, LAMBDA w : w.text \in Range(suggestion.words))

GroupColor(index) == GROUP_COLORS[(index % Len(GROUP_COLORS)) + 1]

\* applySuggestion: the updater passed to setWords
lockGroup(prev, suggestion, color) ==
    [i \in 1..Len(prev) |->
        IF prev[i].text \in Range(suggestion.words)
        THEN [prev[i] EXCEPT !.groupColor = color, !.isLocked = TRUE]
        ELSE prev[i]]

\* the solved-groups effect: one word of one group moved to the top strip
PlaceSolvedWord(nextWords, wordText, wordIdx, groupIdx, sw) ==
    LET cardW == 150
        startX == Rat(sw - (4 * cardW), 2)
        wIndex == FindIndexByText(nextWords, wordText)
    IN  IF wIndex # 0
        THEN [nextWords EXCEPT ![wIndex] =
                [@ EXCEPT !.x = RAdd(startX, RI(wordIdx * cardW)),
                          !.y = RI(20 + (groupIdx * 90)),
                          !.isLocked = TRUE]]
        ELSE nextWords

RECURSIVE PlaceGroupWords(_, _, _, _, _)
PlaceGroupWords(nextWords, groupWords, k, groupIdx, sw) ==
    IF k > Len(groupWords) THEN nextWords
    ELSE PlaceGroupWords(PlaceSolvedWord(nextWords, groupWords[k], k - 1, groupIdx, sw),
                         groupWords, k + 1, groupIdx, sw)

RECURSIVE PlaceGroups(_, _, _, _)
PlaceGroups(nextWords, solved, g, sw) ==
    IF g > Len(solved) THEN nextWords
    ELSE PlaceGroups(PlaceGroupWords(nextWords, solved[g].words, 1, g - 1, sw),
                     solved, g + 1, sw)

\* useEffect on solvedGroups.length
OrganizeSolved(prev, solved, sw) ==
    IF Len(solved) > 0 THEN PlaceGroups(prev, solved, 1, sw) ELSE prev

\* handleResetPositions
handleResetPositions_byBoardIndex(ws, sw) ==
    LET cols == 4
        cardW == 160
        cardH == 100
        startX == Rat(sw - (cols * cardW), 2)
        startY == 150
        locked == SelectSeq(ws, LAMBDA w : w.isLocked)
        push == IF Len(locked) > 0 THEN 150 ELSE 0
        reordered ==
            [i \in 1..Len(ws) |->
                [ws[i] EXCEPT
                    !.x = RAdd(startX, RI(((i - 1) % cols) * cardW)),
                    !.y = RI(startY + ((i - 1) \div cols) * cardH + push)]]
    IN  locked \o SelectSeq(reordered, LAMBDA w : ~w.isLocked)

handleResetPositions(ws, sw) ==
    LET cols == 4
        cardW == 160
        cardH == 100
        startX == Rat(sw - (cols * cardW), 2)
        startY == 150
        unlocked == SelectSeq(ws, LAMBDA w : ~w.isLocked)
        locked == SelectSeq(ws, LAMBDA w : w.isLocked)
        push == IF Len(locked) > 0 THEN 150 ELSE 0
        reorderedUnlocked ==
            [i \in 1..Len(unlocked) |->
                [unlocked[i] EXCEPT
                    !.x = RAdd(startX, RI(((i - 1) % cols) * cardW)),
                    !.y = RI(startY + ((i - 1) \div cols) * cardH + push)]]
    IN  locked \o reorderedUnlocked

\* window.innerHeight
ScreenHeight == 768

\* values of Math.random in handleShuffle, draw k (0-based) of the call:
\* "zero" makes every draw 0, "ramp" makes draw k the value k / 32
ShuffleTapes == { "ramp" }

Random(tape, k) == IF tape = "zero" THEN RI(0) ELSE Rat(k, 32)

\* handleShuffle: the updater passed to setWords; an unlocked tile takes two
\* draws, first x then y
handleShuffle_unlockedOnly(prev, tape, sw, sh) ==
    LET free == SelectSeq(prev, LAMBDA t : ~t.isLocked)
    IN  [i \in 1..Len(free) |->
            [free[i] EXCEPT
                !.x = RAdd(RI(50), RMul(Random(tape, 2 * (i - 1)), RI(sw - 200))),
                !.y = RAdd(RI(50), RMul(Random(tape, 2 * (i - 1) + 1), RI(sh - 300)))]]

handleShuffle(prev, tape, sw, sh) ==
    LET w == sw - 200
        h == sh - 300
        draw(i) == 2 * Cardinality({ j \in 1..(i - 1) : ~prev[j].isLocked })
    IN  [i \in 1..Len(prev) |->
            IF prev[i].isLocked THEN prev[i]
            ELSE [prev[i] EXCEPT
                    !.x = RAdd(RI(50), RMul(Random(tape, draw(i)), RI(w))),
                    !.y = RAdd(RI(50), RMul(Random(tape, draw(i) + 1), RI(h)))]]

\* handleManualSubmit: the suggestion the selected words match, NoGroup if none
SelectedWords(ws, sel) == { ws[i].text : i \in { j \in 1..Len(ws) : ws[j].id \in sel } }

MatchOf(ws, sel, suggs) ==
    LET selectedWords == SelectedWords(ws, sel)
        hit(s) == /\ \A sw \in Range(s.words) : sw \in selectedWords
                  /\ \A sw \in selectedWords : sw \in Range(s.words)
    IN  IF \E i \in 1..Len(suggs) : hit(suggs[i])
        THEN suggs[CHOOSE i \in 1..Len(suggs) :
                     hit(suggs[i]) /\ \A j \in 1..(i - 1) : ~hit(suggs[j])]
        ELSE NoGroup

\* the grouping-suggestion source: answers it can give for the words asked
Group(name, ws) == [groupName |-> name, words |-> ws]

\* The suggestions do not depend on the order of the words asked.
HintResponses(asked) ==
    IF asked = << >> THEN { << >> }
    ELSE { << >>,
           << Group("G1", << "A", "B", "C", "D" >>), Group("G2", << "E", "F", "G", "H" >>) >>,
           << Group("GX", << "A", "B", "C", "ZZ" >>),
              Group("G5", << "A", "B", "C", "D", "ZZ" >>) >> }

(***************************************************************************)
(* src/services/geminiService.ts                                           *)
(*                                                                         *)
(* The outcome of ai.models.generateContent is a record [ok, text]: ok is  *)
(* FALSE when the call rejects; text is << >> when response.text is        *)
(* undefined and << s >> when it is the string s.  A service function      *)
(* returns [ok, v]: ok is FALSE when it throws, v is the value returned.   *)
(***************************************************************************)
Returned(v) == [ok |-> TRUE, v |-> v]
Thrown == [ok |-> FALSE, v |-> Undefined]

\* truthiness of a JavaScript value
Truthy(x) ==
    CASE x.k \in { "undefined", "null" } -> FALSE
      [] x.k = "boolean" -> x.v[1]
      [] x.k = "number" -> x.v[1] # 0
      [] x.k = "string" -> x.v # << >>
      [] OTHER -> TRUE

\* x[name] of a value other than null and undefined (of a parsed object: the
\* last property of that name)
Prop(x, name) ==
    IF x.k = "object" /\ \E i \in 1..Len(x.v) : x.v[i][1] = name
    THEN x.v[CHOOSE i \in 1..Len(x.v) :
                /\ x.v[i][1] = name
                /\ \A j \in (i + 1)..Len(x.v) : x.v[j][1] # name][2]
    ELSE Undefined

\* response.text || fallback
TextOr(response, fallback) ==
    IF response.text = << >> THEN fallback
    ELSE IF response.text[1] = << >> THEN fallback
    ELSE response.text[1]

\* JSON.parse(response.text || "{}") followed by data[name] || []
ListOf(parsed, name) ==
    IF ~parsed.ok THEN Thrown
    ELSE IF parsed.v.k = "null" THEN Thrown
    ELSE IF Truthy(Prop(parsed.v, name)) THEN Returned(Prop(parsed.v, name))
    ELSE Returned(JArr(<< >>))

ParsedListOf(response, name) ==
    ListOf(JSONParse(TextOr(response, Str(<< "{", "}" >>))), name)

\* getConnectionsHints: getAI throws without a key
getConnectionsHints(hasKey, response) ==
    IF ~hasKey \/ ~response.ok THEN Thrown
    ELSE ParsedListOf(response, Str(<< "g", "r", "o", "u", "p", "s" >>))

\* extractWordsFromImage
extractWordsFromImage(hasKey, response) ==
    IF ~hasKey \/ ~response.ok THEN Thrown
    ELSE ParsedListOf(response, Str(<< "w", "o", "r", "d", "s" >>))

IsBlank(c) == c \in { Code(" "), Code("\n"), Code("\t") }

\* String.prototype.trim
RECURSIVE TrimStart(_)
TrimStart(t) == IF t # << >> /\ IsBlank(Head(t)) THEN TrimStart(Tail(t)) ELSE t

RECURSIVE TrimEnd(_)
TrimEnd(t) == IF t # << >> /\ IsBlank(t[Len(t)]) THEN TrimEnd(SubSeq(t, 1, Len(t) - 1)) ELSE t

Trim(t) == TrimEnd(TrimStart(t))

\* String.prototype.toUpperCase on ASCII letters
ToUpperCase(t) ==
    [i \in 1..Len(t) |-> IF t[i] \in Code("a")..Code("z") THEN t[i] - 32 ELSE t[i]]

\* String.prototype.includes
Includes(t, sub) == \E i \in 1..(Len(t) - Len(sub) + 1) : StartsWith(t, i, sub)

\* [...new Set(list)]: first occurrences, in order
RECURSIVE Unique(_)
Unique(list) ==
    IF list = << >> THEN << >>
    ELSE LET h == Unique(SubSeq(list, 1, Len(list) - 1))
             x == list[Len(list)]
         IN  IF \E i \in 1..Len(h) : h[i] = x THEN h ELSE Append(h, x)

\* the fences of a Markdown code block
Fence == Str(<< "BACKTICK", "BACKTICK", "BACKTICK" >>)
FenceOpen == Fence \o Str(<< "j", "s", "o", "n" >>)
FenceOpenLine == FenceOpen \o Str(<< "\n" >>)
LineFence == Str(<< "\n" >>) \o Fence

\* text.replace(/```json\n?|\n?```/g, ""): the scan from position i on
RECURSIVE StripFrom(_, _)
StripFrom(t, i) ==
    IF i > Len(t) THEN << >>
    ELSE IF t[i] \notin { Fence[1], LineFence[1] } THEN << t[i] >> \o StripFrom(t, i + 1)
    ELSE IF StartsWith(t, i, FenceOpenLine) THEN StripFrom(t, i + Len(FenceOpenLine))
    ELSE IF StartsWith(t, i, FenceOpen) THEN StripFrom(t, i + Len(FenceOpen))
    ELSE IF StartsWith(t, i, LineFence) THEN StripFrom(t, i + Len(LineFence))
    ELSE IF StartsWith(t, i, Fence) THEN StripFrom(t, i + Len(Fence))
    ELSE << t[i] >> \o StripFrom(t, i + 1)

StripFences(t) == StripFrom(t, 1)

\* text.match(/\[.*\]/s) and text.match(/\{.*\}/s): << >> for no match, else
\* << the text from the first opening character to the last closing one >>
MatchSpan(t, opening, closing) ==
    LET opens == { i \in 1..Len(t) : t[i] = opening }
        closes == { i \in 1..Len(t) : t[i] = closing }
        a == CHOOSE i \in opens : \A j \in opens : i <= j
        b == CHOOSE i \in closes : \A j \in closes : j <= i
    IN  IF opens = {} \/ closes = {} THEN << >>
        ELSE IF b < a THEN << >>
        ELSE << SubSeq(t, a, b) >>

\* String(x)
RECURSIVE JSString(_)
RECURSIVE JoinStrings(_)
JSString(x) ==
    CASE x.k = "string" -> x.v
      [] x.k = "array" -> JoinStrings(x.v)
      [] x.k = "object" -> Str(<< "[", "o", "b", "j", "e", "c", "t", " ",
                                  "O", "b", "j", "e", "c", "t", "]" >>)
      [] x.k = "undefined" -> Str(<< "u", "n", "d", "e", "f", "i", "n", "e", "d" >>)
      [] OTHER -> Stringify(x)

\* Array.prototype.join(","): null and undefined items give ""
JoinStrings(items) ==
    IF items = << >> THEN << >>
    ELSE (IF Head(items).k \in { "null", "undefined" } THEN << >> ELSE JSString(Head(items)))
         \o (IF Len(items) > 1 THEN Str(<< "," >>) \o JoinStrings(Tail(items)) ELSE << >>)

\* Array.prototype.flat()
RECURSIVE Flat(_)
Flat(items) ==
    IF items = << >> THEN << >>
    ELSE (IF Head(items).k = "array" THEN Head(items).v ELSE << Head(items) >>)
         \o Flat(Tail(items))

\* fetchDailyPuzzle, the direct parse: data.words when it is an array, else
\* data when it is an array, else nothing
DirectWords(data) ==
    LET listed == Prop(data, Str(<< "w", "o", "r", "d", "s" >>))
    IN  IF Truthy(listed) /\ listed.k = "array" THEN listed
        ELSE IF data.k = "array" THEN data
        ELSE JArr(<< >>)

\* fetchDailyPuzzle, the fallback on an object pattern: data.words when truthy
ObjectWords(parsed) ==
    LET listed == Prop(parsed.v, Str(<< "w", "o", "r", "d", "s" >>))
    IN  IF parsed.ok /\ parsed.v.k # "null" /\ Truthy(listed) THEN listed
        ELSE JArr(<< >>)

\* fetchDailyPuzzle, the fallback on an array pattern: whatever it parses to
ArrayWords(parsed) == IF parsed.ok THEN parsed.v ELSE JArr(<< >>)

\* fetchDailyPuzzle, the fallback: the object pattern first, then the array
FallbackWords(objectMatch, arrayMatch) ==
    IF objectMatch # << >> THEN ObjectWords(JSONParse(objectMatch[1]))
    ELSE IF arrayMatch # << >> THEN ArrayWords(JSONParse(arrayMatch[1]))
    ELSE JArr(<< >>)

\* fetchDailyPuzzle: the direct parse, or the fallback when it throws
ParsedOrFallback(direct, responseText) ==
    IF direct.ok /\ direct.v.k # "null" THEN DirectWords(direct.v)
    ELSE FallbackWords(MatchSpan(responseText, Code("{"), Code("}")),
                       MatchSpan(responseText, Code("["), Code("]")))

\* fetchDailyPuzzle: the words found in the response text, before sanitization
FoundWords(responseText) ==
    ParsedOrFallback(JSONParse(Trim(StripFences(responseText))), responseText)

\* words.map(w => String(w).trim().toUpperCase())
Normalized(items) == [i \in 1..Len(items) |-> ToUpperCase(Trim(JSString(items[i])))]

\* the filter of the sanitization
Kept_upTo25(w) ==
    /\ Len(w) > 0
    /\ Len(w) <= 25
    /\ ~Includes(w, Str(<< "T", "H", "E", " ", "W", "O", "R", "D", "S" >>))
    /\ ~Includes(w, Str(<< "P", "U", "Z", "Z", "L", "E" >>))
    /\ ~Includes(w, Str(<< "H", "T", "T", "P" >>))

Kept(w) ==
    /\ Len(w) > 0
    /\ Len(w) < 25
    /\ ~Includes(w, Str(<< "T", "H", "E", " ", "W", "O", "R", "D", "S" >>))
    /\ ~Includes(w, Str(<< "P", "U", "Z", "Z", "L", "E" >>))
    /\ ~Includes(w, Str(<< "H", "T", "T", "P" >>))

\* slice(0, 16)
Slice16(list) == SubSeq(list, 1, IF Len(list) < 16 THEN Len(list) ELSE 16)

\* fetchDailyPuzzle: the sanitization of the words found
Sanitized(found) == Slice16(Unique(SelectSeq(Normalized(Flat(found)), Kept)))

\* a list of strings as a JavaScript array
StringArray(list) == JArr([i \in 1..Len(list) |-> JStr(list[i])])

\* fetchDailyPuzzle from the words found on: words.flat() throws a TypeError
\* when they are not an array
SanitizedOrThrown(found) ==
    IF found.k # "array" THEN Thrown ELSE Returned(StringArray(Sanitized(found.v)))

\* fetchDailyPuzzle: returns { words }, here the list itself
fetchDailyPuzzle(hasKey, response) ==
    IF ~hasKey \/ ~response.ok THEN Thrown
    ELSE SanitizedOrThrown(FoundWords(TextOr(response, << >>)))

(***************************************************************************)
(* src/unnamed/part_003 (InputModal)                                       *)
(*                                                                         *)
(* The dialog hands word lists to initializeBoard as JavaScript values:    *)
(* the text of a tile loaded through it is the value itself.               *)
(***************************************************************************)
\* the separators of handleParse: /[\n,;\t]+/
IsSeparator_nosemicolon(c) == c \in { Code("\n"), Code(","), Code("\t") }

IsSeparator(c) == c \in { Code("\n"), Code(","), Code(";"), Code("\t") }

\* text.split(separators): the pieces between the runs of separators, and an
\* empty piece before a leading run and after a trailing one
Split(t) ==
    LET n == Len(t)
        starts == { i \in 1..n : ~IsSeparator(t[i]) /\ (i = 1 \/ IsSeparator(t[i - 1])) }
        startOf(k) == CHOOSE a \in starts : Cardinality({ x \in starts : x < a }) = k - 1
        endOf(a) == CHOOSE e \in a..n :
                        /\ \A j \in a..e : ~IsSeparator(t[j])
                        /\ e = n \/ IsSeparator(t[e + 1])
        lead == IF n = 0 \/ IsSeparator(t[1]) THEN << << >> >> ELSE << >>
        trail == IF n > 0 /\ IsSeparator(t[n]) THEN << << >> >> ELSE << >>
    IN  lead \o [k \in 1..Cardinality(starts) |-> SubSeq(t, startOf(k), endOf(startOf(k)))]
             \o trail

\* .map(w => w.trim().toUpperCase()).filter(w => w.length > 0)
UpperTrimmed(pieces) ==
    SelectSeq([i \in 1..Len(pieces) |-> ToUpperCase(Trim(pieces[i]))],
              LAMBDA w : Len(w) > 0)

\* handleParse: uniqueWords
UniqueWords(t) == Unique(UpperTrimmed(Split(t)))

\* Array.prototype.join("\n") of an array of strings
RECURSIVE JoinLines(_)
JoinLines(list) ==
    IF list = << >> THEN << >>
    ELSE IF Len(list) = 1 THEN list[1]
    ELSE list[1] \o << Code("\n") >> \o JoinLines(Tail(list))

\* PRESETS[0].words
PRESET_WORDS ==
    << Str(<< "S", "T", "A", "L", "K" >>),
       Str(<< "S", "H", "O", "O", "T" >>),
       Str(<< "S", "P", "E", "A", "R" >>),
       Str(<< "B", "L", "A", "D", "E" >>),
       Str(<< "R", "U", "S", "H" >>),
       Str(<< "H", "U", "R", "R", "Y" >>),
       Str(<< "D", "A", "S", "H" >>),
       Str(<< "S", "C", "R", "A", "M", "B", "L", "E" >>),
       Str(<< "B", "E", "A", "R" >>),
       Str(<< "L", "I", "O", "N" >>),
       Str(<< "T", "I", "G", "E", "R" >>),
       Str(<< "W", "O", "L", "F" >>),
       Str(<< "S", "T", "O", "C", "K" >>),
       Str(<< "S", "H", "A", "R", "E" >>),
       Str(<< "B", "O", "N", "D" >>),
       Str(<< "F", "U", "N", "D" >>) >>

\* `We need exactly 16 unique words. You have ${uniqueWords.length}.`
NeedSixteen ==
    Str(<< "W", "e", " ", "n", "e", "e", "d", " ", "e", "x", "a", "c", "t", "l", "y",
            " ", "1", "6", " ", "u", "n", "i", "q", "u", "e", " ", "w", "o", "r", "d",
            "s", ".", " ", "Y", "o", "u", " ", "h", "a", "v", "e", " " >>)
CountMessage(n) == NeedSixteen \o Digits(n) \o Str(<< "." >>)

\* the messages of handleLoadDaily (source is never set)
LoadedMessage ==
    Str(<< "L", "o", "a", "d", "e", "d", " ", "t", "o", "d", "a", "y", "'", "s", " ",
            "w", "o", "r", "d", "s", ".", " ", "C", "l", "i", "c", "k", " ", "S", "t",
            "a", "r", "t", "!" >>)
FoundPrefix ==
    Str(<< "F", "o", "u", "n", "d", " " >>)
PleaseCheck ==
    Str(<< " ", "w", "o", "r", "d", "s", ".", " ", "P", "l", "e", "a", "s", "e", " ",
            "c", "h", "e", "c", "k", " ", "a", "n", "d", " ", "f", "i", "x", "." >>)
FoundCheck(n) == FoundPrefix \o Digits(n) \o PleaseCheck
DailyNotFound ==
    Str(<< "C", "o", "u", "l", "d", " ", "n", "o", "t", " ", "f", "i", "n", "d", " ",
            "t", "o", "d", "a", "y", "'", "s", " ", "p", "u", "z", "z", "l", "e", ".",
            " ", "T", "r", "y", " ", "u", "p", "l", "o", "a", "d", "i", "n", "g", " ",
            "a", " ", "s", "c", "r", "e", "e", "n", "s", "h", "o", "t", " ", "i", "n",
            "s", "t", "e", "a", "d", "." >>)
DailyFailed ==
    Str(<< "F", "a", "i", "l", "e", "d", " ", "t", "o", " ", "s", "e", "a", "r", "c",
            "h", " ", "f", "o", "r", " ", "d", "a", "i", "l", "y", " ", "p", "u", "z",
            "z", "l", "e", "." >>)
\* the messages of handleFileSelect
PleaseVerify ==
    Str(<< " ", "w", "o", "r", "d", "s", ".", " ", "P", "l", "e", "a", "s", "e", " ",
            "v", "e", "r", "i", "f", "y", " ", "t", "h", "e", " ", "l", "i", "s", "t",
            " ", "a", "n", "d", " ", "c", "l", "i", "c", "k", " ", "\"", "S", "t", "a",
            "r", "t", " ", "C", "a", "n", "v", "a", "s", "\"", "." >>)
FoundVerify(n) == FoundPrefix \o Digits(n) \o PleaseVerify
ImageNotFound ==
    Str(<< "C", "o", "u", "l", "d", " ", "n", "o", "t", " ", "f", "i", "n", "d", " ",
            "w", "o", "r", "d", "s", " ", "i", "n", " ", "t", "h", "e", " ", "i", "m",
            "a", "g", "e", ".", " ", "P", "l", "e", "a", "s", "e", " ", "t", "r", "y",
            " ", "a", "g", "a", "i", "n", " ", "o", "r", " ", "t", "y", "p", "e", " ",
            "m", "a", "n", "u", "a", "l", "l", "y", "." >>)
ImageFailed ==
    Str(<< "F", "a", "i", "l", "e", "d", " ", "t", "o", " ", "a", "n", "a", "l", "y",
            "z", "e", " ", "i", "m", "a", "g", "e", ".", " ", "P", "l", "e", "a", "s",
            "e", " ", "t", "r", "y", " ", "a", "g", "a", "i", "n", "." >>)

(***************************************************************************)
(* Actions of src/App.tsx                                                  *)
(***************************************************************************)
\* the state updates of initializeBoard; Date.now() reads the clock
LoadBoard(newWordList) ==
    /\ boardEpoch < MaxLoads
    /\ words' = initializeBoard(newWordList, now, screenW)
    /\ now' = now
    /\ isSetupOpen' = FALSE
    /\ solvedGroups' = << >>
    /\ suggestions' = << >>
    /\ selectedIds' = {}
    /\ boardEpoch' = boardEpoch + 1
    /\ suggFor' = boardEpoch + 1

\* useEffect on mount: read the p query parameter
MountUrlEffect ==
    /\ UNCHANGED << canvasVars, otherVars >>
    /\ ~urlChecked
    /\ urlChecked' = TRUE
    /\ \E loadedWords \in UrlPayloads :
          IF Len(loadedWords) = BoardSize
          THEN LoadBoard(loadedWords)
          ELSE UNCHANGED << words, selectedIds, now, isSetupOpen, solvedGroups,
                            suggestions, boardEpoch, suggFor >>
    /\ lastOp' = "" /\ alertMsg' = ""
    /\ UNCHANGED << screenW, nDrags, isLoading, hintCall >>

\* InputModal calls onStart (= initializeBoard) with sixteen words: handleParse
\* with sixteen unique words, handleFileSelect with the sixteen words read
\* from an image as they came
ModalStart(newWordList) ==
    /\ UNCHANGED << canvasVars, otherVars >>
    /\ urlChecked /\ isSetupOpen
    /\ LoadBoard(newWordList)
    /\ lastOp' = "" /\ alertMsg' = ""
    /\ UNCHANGED << screenW, nDrags, isLoading, hintCall, urlChecked >>

\* Controls.onClear: reopen the setup dialog
ClearBoard ==
    /\ UNCHANGED << canvasVars, otherVars >>
    /\ urlChecked /\ ~isSetupOpen
    /\ isSetupOpen' = TRUE
    /\ lastOp' = "" /\ alertMsg' = ""
    /\ UNCHANGED << words, selectedIds, now, screenW, nDrags, isLoading, suggestions,
                    solvedGroups, hintCall, boardEpoch, suggFor, urlChecked >>

\* a tap (click without drag) on a tile: DraggableWord.onClick
TapTile(id) ==
    /\ UNCHANGED << canvasVars, otherVars >>
    /\ urlChecked /\ ~isSetupOpen
    /\ id \in Ids(words) /\ id[1] \in TapTiles
    /\ selectedIds' = handleToggleSelect(selectedIds, id)
    /\ lastOp' = IF selectedIds' = selectedIds THEN "tap" ELSE ""
    /\ alertMsg' = ""
    /\ UNCHANGED << words, now, screenW, nDrags, isSetupOpen, isLoading, suggestions,
                    solvedGroups, hintCall, boardEpoch, suggFor, urlChecked >>

\* handleShuffle (the Shuffle button); counted with the drags
ShuffleApp(tape) ==
    /\ UNCHANGED << canvasVars, otherVars >>
    /\ urlChecked /\ ~isSetupOpen
    /\ nDrags < MaxDrags
    /\ words' = handleShuffle(words, tape, screenW, ScreenHeight)
    /\ nDrags' = nDrags + 1
    /\ lastOp' = "" /\ alertMsg' = ""
    /\ UNCHANGED << selectedIds, now, screenW, isSetupOpen, isLoading, suggestions,
                    solvedGroups, hintCall, boardEpoch, suggFor, urlChecked >>

\* useDraggable({disabled: word.isLocked}): the tiles the drag library lets move
Draggable(w) == ~w.isLocked

\* a drag of a tile that the drag library completes: onDragEnd
DragTileApp(id, delta) ==
    /\ UNCHANGED << canvasVars, otherVars >>
    /\ urlChecked /\ ~isSetupOpen
    /\ nDrags < MaxDrags
    /\ id \in Ids(words) /\ id[1] \in DragTiles
    /\ Draggable(TileById(words, id))
    /\ words' = handleDragEndApp(words, id, delta)
    /\ nDrags' = nDrags + 1
    /\ lastOp' = "" /\ alertMsg' = ""
    /\ UNCHANGED << selectedIds, now, screenW, isSetupOpen, isLoading, suggestions,
                    solvedGroups, hintCall, boardEpoch, suggFor, urlChecked >>

\* Controls.onResetPositions ("Grid View")
ResetPositions ==
    /\ UNCHANGED << canvasVars, otherVars >>
    /\ urlChecked /\ ~isSetupOpen
    /\ words' = handleResetPositions(words, screenW)
    /\ lastOp' = "" /\ alertMsg' = ""
    /\ UNCHANGED << selectedIds, now, screenW, nDrags, isSetupOpen, isLoading,
                    suggestions, solvedGroups, hintCall, boardEpoch, suggFor,
                    urlChecked >>

\* handleGetHints up to the await ("AI Hint", disabled while isLoading)
GetHints ==
    /\ UNCHANGED << canvasVars, otherVars >>
    /\ urlChecked /\ ~isSetupOpen
    /\ ~isLoading
    /\ isLoading' = TRUE
    /\ hintCall' = << [asked |-> Texts(words), epoch |-> boardEpoch] >>
    /\ lastOp' = "" /\ alertMsg' = ""
    /\ UNCHANGED << words, selectedIds, now, screenW, nDrags, isSetupOpen, suggestions,
                    solvedGroups, boardEpoch, suggFor, urlChecked >>

\* handleGetHints after the await: what it does with the resolved hints
HintSuccess(hints) ==
    /\ suggestions' = hints
    /\ suggFor' = hintCall[1].epoch

\* handleGetHints after the await: getConnectionsHints resolved
HintResolve ==
    /\ UNCHANGED << canvasVars, otherVars >>
    /\ hintCall # << >>
    /\ \E hints \in HintResponses(hintCall[1].asked) : HintSuccess(hints)
    /\ isLoading' = FALSE
    /\ hintCall' = << >>
    /\ lastOp' = "" /\ alertMsg' = ""
    /\ UNCHANGED << words, selectedIds, now, screenW, nDrags, isSetupOpen,
                    solvedGroups, boardEpoch, urlChecked >>

\* handleGetHints, catch block: what it does when getConnectionsHints threw
HintFailure_clears ==
    /\ suggestions' = << >>
    /\ alertMsg' = "Could not retrieve hints. Please check your API key or try again."

HintFailure ==
    /\ suggestions' = suggestions
    /\ alertMsg' = "Could not retrieve hints. Please check your API key or try again."

\* handleGetHints after the await: getConnectionsHints threw
\* (service error, or getAI found no API key)
HintReject ==
    /\ UNCHANGED << canvasVars, otherVars >>
    /\ hintCall # << >>
    /\ HintFailure
    /\ isLoading' = FALSE
    /\ hintCall' = << >>
    /\ lastOp' = ""
    /\ UNCHANGED << words, selectedIds, now, screenW, nDrags, isSetupOpen,
                    solvedGroups, boardEpoch, suggFor, urlChecked >>

\* the X button of the AI panel
CloseSuggestions ==
    /\ UNCHANGED << canvasVars, otherVars >>
    /\ urlChecked /\ ~isSetupOpen
    /\ suggestions # << >>
    /\ suggestions' = << >>
    /\ lastOp' = "" /\ alertMsg' = ""
    /\ UNCHANGED << words, selectedIds, now, screenW, nDrags, isSetupOpen, isLoading,
                    solvedGroups, hintCall, boardEpoch, suggFor, urlChecked >>

\* applySuggestion proceeds only when exactly four tiles match
Applies(ws, suggestion) == Len(WordsToGroup(ws, suggestion)) = GroupSize

\* applySuggestion and the solved-groups effect that its state change triggers
ApplySuggestion(suggestion, index) ==
    IF ~Applies(words, suggestion)
    THEN /\ lastOp' = "applySuggestion"
         /\ UNCHANGED << words, solvedGroups, suggestions, selectedIds >>
    ELSE LET solved == Append(solvedGroups, suggestion)
         IN  /\ words' = OrganizeSolved(lockGroup(words, suggestion, GroupColor(index)),
                                        solved, screenW)
             /\ solvedGroups' = solved
             /\ suggestions' = SelectSeq(suggestions, LAMBDA s : s # suggestion)
             /\ selectedIds' = {}
             /\ lastOp' = ""

\* the Reveal button of suggestion idx (0-based) in the AI panel
Reveal(idx) ==
    /\ UNCHANGED << canvasVars, otherVars >>
    /\ urlChecked /\ ~isSetupOpen
    /\ Len(solvedGroups) < MaxSolved
    /\ idx + 1 \in 1..Len(suggestions)
    /\ ApplySuggestion(suggestions[idx + 1], Len(solvedGroups) + idx)
    /\ alertMsg' = ""
    /\ UNCHANGED << now, screenW, nDrags, isSetupOpen, isLoading, hintCall,
                    boardEpoch, suggFor, urlChecked >>

\* handleManualSubmit ("Submit Group", shown when four tiles are selected)
ManualSubmit ==
    /\ UNCHANGED << canvasVars, otherVars >>
    /\ urlChecked /\ ~isSetupOpen
    /\ Cardinality(selectedIds) = 4
    /\ Len(solvedGroups) < MaxSolved
    /\ LET match == IF Len(suggestions) > 0
                    THEN MatchOf(words, selectedIds, suggestions)
                    ELSE NoGroup
       IN  IF match # NoGroup
           THEN ApplySuggestion(match, Len(solvedGroups))
           ELSE /\ selectedIds' = {}
                /\ lastOp' = ""
                /\ UNCHANGED << words, solvedGroups, suggestions >>
    /\ alertMsg' = ""
    /\ UNCHANGED << now, screenW, nDrags, isSetupOpen, isLoading, hintCall,
                    boardEpoch, suggFor, urlChecked >>

(***************************************************************************)
(* src/unnamed/part_002                                                    *)
(***************************************************************************)
\* values of Math.random in shuffle: "keep" makes every draw j = i,
\* "first" makes every draw j = 0
RandomTapes == { "keep", "first" }

\* Math.floor(Math.random() * (i + 1))
RandomIndex(tape, i) == IF tape = "keep" THEN i ELSE 0

\* [newArray[i], newArray[j]] = [newArray[j], newArray[i]] (0-based i, j)
Swap(newArray, i, j) ==
    [newArray EXCEPT ![i + 1] = newArray[j + 1], ![j + 1] = newArray[i + 1]]

\* the loop of shuffle from index i down to 1
RECURSIVE ShuffleFrom(_, _, _)
ShuffleFrom(newArray, i, tape) ==
    IF i <= 0 THEN newArray
    ELSE ShuffleFrom(Swap(newArray, i, RandomIndex(tape, i)), i - 1, tape)

\* Fisher-Yates shuffle
shuffle(array, tape) == ShuffleFrom(array, Len(array) - 1, tape)

\* Math.max(lo, Math.min(hi, v))
Clamp(lo, hi, v) == RMax(lo, RMin(hi, v))

MinScale == Rat(1, 10)
MaxScale == RI(3)

\* calculateResponsiveLayout: tiles and viewport for a word list at clock value t
calculateResponsiveLayout(wordList, t, sw) ==
    LET cols == 4
        gap == 16
        tileW == 150
        tileH == 80
        totalW == (cols * tileW) + ((cols - 1) * gap)
        hPadding == 40
        fit == IF sw < totalW + hPadding THEN Rat(sw - hPadding, totalW) ELSE RI(1)
        scale == Clamp(Rat(2, 5), Rat(6, 5), fit)
        gridScreenW == RMul(RI(totalW), scale)
        startViewportX == RDiv(RSub(RI(sw), gridScreenW), RI(2))
        startViewportY == IF sw < 640 THEN 160 ELSE 200
    IN  [ words |-> [i \in 1..Len(wordList) |->
                        NewTile(<<i - 1, t>>, wordList[i],
                                RI(((i - 1) % cols) * (tileW + gap)),
                                RI(((i - 1) \div cols) * (tileH + gap)))],
          viewport |-> [x |-> startViewportX, y |-> RI(startViewportY), scale |-> scale],
          layoutConfig |-> [tileW |-> tileW, tileH |-> tileH] ]

\* handlePointerMove: the updater passed to setViewport
panBy_clamped(prev, dx, dy) ==
    [prev EXCEPT !.x = RMax(RI(0), RAdd(@, RI(dx))), !.y = RMax(RI(0), RAdd(@, RI(dy)))]

panBy(prev, dx, dy) ==
    [prev EXCEPT !.x = RAdd(@, RI(dx)), !.y = RAdd(@, RI(dy))]

\* handleTouchMove: newScale, computed from the scale the handler closed over
pinchScale_unclamped(closedScale, delta) == RAdd(closedScale, Rat(delta * 5, 1000))

pinchScale(closedScale, delta) ==
    Clamp(MinScale, MaxScale, RAdd(closedScale, Rat(delta * 5, 1000)))

\* onWheel: the updater passed to setViewport
wheelZoom(prev, deltaY) ==
    [prev EXCEPT !.scale = Clamp(MinScale, MaxScale, RAdd(@, Rat(-deltaY, 1000)))]

\* zoomIn, zoomOut: the updaters passed to setViewport
zoomIn(prev) == [prev EXCEPT !.scale = RMin(MaxScale, RAdd(@, Rat(1, 10)))]
zoomOut(prev) == [prev EXCEPT !.scale = RMax(MinScale, RSub(@, Rat(1, 10)))]

\* handleDragEnd of part_002: the updater passed to setWords
handleDragEnd_everyTile(prev, id, delta, closedScale) ==
    LET adjustedX == RDiv(RI(delta[1]), closedScale)
        adjustedY == RDiv(RI(delta[2]), closedScale)
    IN  [i \in 1..Len(prev) |->
            [prev[i] EXCEPT !.x = RAdd(@, adjustedX), !.y = RAdd(@, adjustedY)]]

handleDragEnd(prev, id, delta, closedScale) ==
    LET adjustedX == RDiv(RI(delta[1]), closedScale)
        adjustedY == RDiv(RI(delta[2]), closedScale)
    IN  [i \in 1..Len(prev) |->
            IF prev[i].id = id
            THEN [prev[i] EXCEPT !.x = RAdd(@, adjustedX), !.y = RAdd(@, adjustedY)]
            ELSE prev[i]]

\* cancelDrop, given activeTouches.current
cancelDrop(n) == n > 1

\* word lists fetchDailyPuzzle can resolve to
DailyLists == { << >>, << "A", "B", "C", "D", "E" >> }

(***************************************************************************)
(* Actions of src/unnamed/part_002                                         *)
(*                                                                         *)
(* Rendering.  A handler reads viewport.scale from the closure of the last *)
(* render (renderedScale).  Updates made by move and wheel events are      *)
(* rendered later (Render); a click is rendered before its handler         *)
(* returns, its own update applied to the rendered state.                  *)
(*                                                                         *)
(* Drag library.  The PointerSensor arms on the primary pointer-down on a  *)
(* tile ("pending"), starts the drag once a pointer-move it handles        *)
(* exceeds the activation distance ("dragging"), and ends it on a          *)
(* pointer-up it handles.  It always handles the events of the pointer     *)
(* that pressed the tile; whether it also handles those of another pointer *)
(* is left open (sensed).  "released": the tile is still pressed but the   *)
(* sensor has ended.                                                       *)
(***************************************************************************)
\* initializeBoard of part_002: shuffle, lay out, leave the loading screen
initializeBoardCanvas(newWordList, tape) ==
    LET layout == calculateResponsiveLayout(shuffle(newWordList, tape), now, screenW)
    IN  /\ words' = layout.words
        /\ viewport' = layout.viewport
        /\ renderedScale' = layout.viewport.scale
        /\ layoutConfig' = layout.layoutConfig
        /\ isInitializing' = FALSE
        /\ hasInitialized' = TRUE

\* the mount effect runs initApp up to the await.  React runs the effect
\* at mount, a second time right after it in StrictMode; the runs after the
\* board is initialized return at once.
MountEffect ==
    /\ isInitializing /\ errorMsg = ""
    /\ ~hasInitialized
    /\ initCalls < MaxMounts
    /\ initCalls' = initCalls + 1
    /\ UNCHANGED << words, selectedIds, now, screenW, nDrags, boardVars, otherVars, lastOp, viewport,
                    renderedScale, layoutConfig, isPanning, lastPanPoint, lastPinchDist,
                    activeTouches, hasInitialized, isInitializing, errorMsg, touches, drag,
                    nGestures >>

\* initApp after the await: fetchDailyPuzzle resolved
InitAppResolve(fetched, tape) ==
    /\ initCalls > 0
    /\ initCalls' = initCalls - 1
    /\ IF Len(fetched) > 0
       THEN /\ initializeBoardCanvas(SubSeq(fetched, 1, IF Len(fetched) < 16
                                                        THEN Len(fetched) ELSE 16), tape)
            /\ UNCHANGED errorMsg
       ELSE /\ errorMsg' = "Could not load puzzle data."
            /\ isInitializing' = FALSE
            /\ UNCHANGED << words, viewport, renderedScale, layoutConfig, hasInitialized >>
    /\ UNCHANGED << selectedIds, now, screenW, nDrags, boardVars, otherVars, lastOp, isPanning,
                    lastPanPoint, lastPinchDist, activeTouches, touches, drag, nGestures >>

\* initApp, catch block: fetchDailyPuzzle threw
InitAppReject ==
    /\ initCalls > 0
    /\ initCalls' = initCalls - 1
    /\ errorMsg' = "Failed to connect to puzzle service."
    /\ isInitializing' = FALSE
    /\ UNCHANGED << words, selectedIds, now, screenW, nDrags, boardVars, otherVars, lastOp, viewport,
                    renderedScale, layoutConfig, isPanning, lastPanPoint, lastPinchDist,
                    activeTouches, hasInitialized, touches, drag, nGestures >>

\* React renders the pending viewport updates
Render ==
    /\ renderedScale # viewport.scale
    /\ renderedScale' = viewport.scale
    /\ UNCHANGED << words, selectedIds, now, screenW, nDrags, boardVars, otherVars, lastOp, viewport,
                    layoutConfig, isPanning, lastPanPoint, lastPinchDist, activeTouches,
                    hasInitialized, isInitializing, errorMsg, initCalls, touches, drag,
                    nGestures >>

\* number of touch points other than the one pressing a tile
OtherTouches == touches - (IF drag # << >> THEN 1 ELSE 0)

\* a finger lands on the background: pointerdown (handlePointerDown), then
\* touchstart (handleTouchStart)
FingerDownBackground(p) ==
    /\ ~isInitializing
    /\ touches + 1 \in TouchCounts
    /\ touches' = touches + 1
    /\ isPanning' = TRUE
    /\ lastPanPoint' = p
    /\ activeTouches' = touches + 1
    /\ UNCHANGED << words, selectedIds, now, screenW, nDrags, boardVars, otherVars, lastOp, viewport,
                    renderedScale, layoutConfig, lastPinchDist, hasInitialized,
                    isInitializing, errorMsg, initCalls, drag, nGestures >>

\* pointerdown and touchstart of a finger that lands on tile id
PressTile(id) ==
    /\ ~isInitializing
    /\ touches + 1 \in TouchCounts
    /\ id \in Ids(words)
    /\ touches' = touches + 1
    /\ activeTouches' = touches + 1
    /\ drag' = IF touches = 0
               THEN << [id |-> id,
                        phase |-> IF Draggable(TileById(words, id)) THEN "pending"
                                                                     ELSE "released",
                        startedMulti |-> FALSE] >>
               ELSE drag
    /\ UNCHANGED << words, selectedIds, now, screenW, nDrags, boardVars, otherVars, lastOp, viewport,
                    renderedScale, layoutConfig, isPanning, lastPanPoint, lastPinchDist,
                    hasInitialized, isInitializing, errorMsg, initCalls, nGestures >>

\* a finger lands on a tile: pointerdown (handlePointerDown returns early;
\* the PointerSensor arms for a primary pointer, the first one down), then
\* touchstart
FingerDownTile_pans(id) ==
    /\ ~isInitializing
    /\ touches + 1 \in TouchCounts
    /\ id \in Ids(words) /\ id[1] \in CanvasTiles
    /\ touches' = touches + 1
    /\ activeTouches' = touches + 1
    /\ isPanning' = TRUE
    /\ drag' = IF touches = 0
               THEN << [id |-> id,
                        phase |-> IF Draggable(TileById(words, id)) THEN "pending"
                                                                     ELSE "released",
                        startedMulti |-> FALSE] >>
               ELSE drag
    /\ UNCHANGED << words, selectedIds, now, screenW, nDrags, boardVars, otherVars, lastOp, viewport,
                    renderedScale, layoutConfig, lastPanPoint, lastPinchDist,
                    hasInitialized, isInitializing, errorMsg, initCalls, nGestures >>

FingerDownTile(id) ==
    /\ id \in Ids(words) /\ id[1] \in CanvasTiles
    /\ PressTile(id)

\* a finger moves to p: pointermove (handlePointerMove); sensed: the
\* PointerSensor handles the event and finds its activation distance exceeded
PointerMove(p, sensed) ==
    /\ ~isInitializing
    /\ touches > 0
    /\ sensed => (drag # << >> /\ drag[1].phase = "pending")
    /\ IF isPanning
       THEN /\ viewport' = panBy(viewport, p[1] - lastPanPoint[1], p[2] - lastPanPoint[2])
            /\ lastPanPoint' = p
       ELSE UNCHANGED << viewport, lastPanPoint >>
    /\ drag' = IF sensed
               THEN << [drag[1] EXCEPT !.phase = "dragging", !.startedMulti = touches > 1] >>
               ELSE drag
    /\ nGestures' = nGestures + (IF viewport' # viewport THEN 1 ELSE 0)
                              + (IF sensed THEN 1 ELSE 0)
    /\ nGestures' <= MaxGestures
    /\ UNCHANGED << words, selectedIds, now, screenW, nDrags, boardVars, otherVars, lastOp,
                    renderedScale, layoutConfig, isPanning, lastPinchDist, activeTouches,
                    hasInitialized, isInitializing, errorMsg, initCalls, touches >>

\* touchmove with the two touch points dist apart (handleTouchMove)
TouchMove(dist) ==
    /\ ~isInitializing
    /\ touches > 0
    /\ activeTouches' = touches
    /\ IF touches = 2
       THEN /\ lastPinchDist' = << dist >>
            /\ IF lastPinchDist # << >>
               THEN /\ nGestures < MaxGestures
                    /\ nGestures' = nGestures + 1
                    /\ viewport' = [viewport EXCEPT !.scale =
                                       pinchScale(renderedScale, dist - lastPinchDist[1])]
               ELSE UNCHANGED << viewport, nGestures >>
       ELSE UNCHANGED << lastPinchDist, viewport, nGestures >>
    /\ UNCHANGED << words, selectedIds, now, screenW, nDrags, boardVars, otherVars, lastOp,
                    renderedScale, layoutConfig, isPanning, lastPanPoint, hasInitialized,
                    isInitializing, errorMsg, initCalls, touches, drag >>

\* DndContext when the sensor ends a drag: cancelDrop, then onDragEnd
DropTile(delta) ==
    words' = IF cancelDrop(activeTouches) \/ delta = <<0, 0>>
             THEN words
             ELSE handleDragEnd(words, drag[1].id, delta, renderedScale)

\* a finger lifts: pointerup (drag library, handlePointerUp), the click on a
\* tile that was pressed and not dragged, then touchend (handleTouchEnd)
FingerUp(tileFinger, sensed, delta) ==
    /\ ~isInitializing
    /\ IF tileFinger
       THEN drag # << >> /\ sensed = (drag[1].phase # "released")
       ELSE OtherTouches > 0 /\ (sensed => (drag # << >> /\ drag[1].phase # "released"))
    /\ IF sensed /\ drag[1].phase = "dragging"
       THEN DropTile(delta)
       ELSE UNCHANGED words
    /\ selectedIds' = IF tileFinger /\ drag[1].phase # "dragging"
                      THEN handleToggleSelect(selectedIds, drag[1].id)
                      ELSE selectedIds
    /\ drag' = IF tileFinger THEN << >>
               ELSE IF sensed THEN << [drag[1] EXCEPT !.phase = "released"] >>
               ELSE drag
    /\ touches' = touches - 1
    /\ isPanning' = FALSE
    /\ lastPinchDist' = << >>
    /\ activeTouches' = touches - 1
    /\ UNCHANGED << now, screenW, nDrags, boardVars, otherVars, lastOp, viewport, renderedScale,
                    layoutConfig, lastPanPoint, hasInitialized, isInitializing, errorMsg,
                    initCalls, nGestures >>

\* pointerleave while no finger lifts (the mouse pointer leaves the
\* container), or a pointerup whose pointerdown the container never saw:
\* handlePointerUp
PointerLeave ==
    /\ ~isInitializing
    /\ isPanning' = FALSE
    /\ lastPinchDist' = << >>
    /\ UNCHANGED << words, selectedIds, now, screenW, nDrags, boardVars, otherVars, lastOp,
                    viewport, renderedScale, layoutConfig, lastPanPoint, activeTouches,
                    hasInitialized, isInitializing, errorMsg, initCalls, touches, drag,
                    nGestures >>

\* onWheel
Wheel(deltaY, ctrlKey) ==
    /\ ~isInitializing
    /\ ctrlKey => nGestures < MaxGestures
    /\ nGestures' = IF ctrlKey THEN nGestures + 1 ELSE nGestures
    /\ viewport' = IF ctrlKey THEN wheelZoom(viewport, deltaY) ELSE viewport
    /\ UNCHANGED << words, selectedIds, now, screenW, nDrags, boardVars, otherVars, lastOp,
                    renderedScale, layoutConfig, isPanning, lastPanPoint, lastPinchDist,
                    activeTouches, hasInitialized, isInitializing, errorMsg, initCalls,
                    touches, drag >>

\* the zoom-in button
ZoomIn ==
    /\ ~isInitializing
    /\ nGestures < MaxGestures
    /\ nGestures' = nGestures + 1
    /\ viewport' = zoomIn(viewport)
    /\ renderedScale' = zoomIn([viewport EXCEPT !.scale = renderedScale]).scale
    /\ UNCHANGED << words, selectedIds, now, screenW, nDrags, boardVars, otherVars, lastOp,
                    layoutConfig, isPanning, lastPanPoint, lastPinchDist,
                    activeTouches, hasInitialized, isInitializing, errorMsg, initCalls,
                    touches, drag >>

\* the zoom-out button
ZoomOut ==
    /\ ~isInitializing
    /\ nGestures < MaxGestures
    /\ nGestures' = nGestures + 1
    /\ viewport' = zoomOut(viewport)
    /\ renderedScale' = zoomOut([viewport EXCEPT !.scale = renderedScale]).scale
    /\ UNCHANGED << words, selectedIds, now, screenW, nDrags, boardVars, otherVars, lastOp,
                    layoutConfig, isPanning, lastPanPoint, lastPinchDist,
                    activeTouches, hasInitialized, isInitializing, errorMsg, initCalls,
                    touches, drag >>

\* handleResetLayout (the Reset Layout button, pressed while no tile is held);
\* Date.now() reads a clock that may have advanced
ResetLayout ==
    /\ ~isInitializing
    /\ drag = << >>
    /\ \E t \in now..MaxTime :
          LET layout == calculateResponsiveLayout(Texts(words), t, screenW)
          IN  /\ now' = t
              /\ words' = layout.words
              /\ viewport' = layout.viewport
              /\ renderedScale' = layout.viewport.scale
              /\ layoutConfig' = layout.layoutConfig
    /\ UNCHANGED << selectedIds, screenW, nDrags, boardVars, otherVars, lastOp, isPanning,
                    lastPanPoint, lastPinchDist, activeTouches, hasInitialized,
                    isInitializing, errorMsg, initCalls, touches, drag, nGestures >>

\* the state of src/App.tsx before the mount effect
AppIdle ==
    /\ isSetupOpen = TRUE
    /\ isLoading = FALSE
    /\ suggestions = << >>
    /\ solvedGroups = << >>
    /\ hintCall = << >>
    /\ alertMsg = ""
    /\ boardEpoch = 0
    /\ suggFor = 0
    /\ urlChecked = FALSE
    /\ lastOp = ""

\* the state of part_002 at construction, with calls invocations of initApp
\* awaiting fetchDailyPuzzle
CanvasInit(calls) ==
    /\ viewport = [x |-> RI(0), y |-> RI(0), scale |-> RI(1)]
    /\ renderedScale = RI(1)
    /\ layoutConfig = [tileW |-> 150, tileH |-> 80]
    /\ isPanning = FALSE
    /\ lastPanPoint = <<0, 0>>
    /\ lastPinchDist = << >>
    /\ activeTouches = 0
    /\ hasInitialized = FALSE
    /\ isInitializing = TRUE
    /\ errorMsg = ""
    /\ initCalls = calls
    /\ touches = 0
    /\ drag = << >>
    /\ nGestures = 0

\* the setup dialog as constructed, an empty clipboard, no function applied
ModalIdle ==
    /\ text = << >>
    /\ error = << >>
    /\ isAnalyzing = FALSE
    /\ modalCall = << >>

OtherIdle ==
    /\ ModalIdle
    /\ clipboard = << >>
    /\ call = << >>
    /\ ret = << >>

Init ==
    /\ words = << >>
    /\ selectedIds = {}
    /\ now = 0
    /\ screenW \in { 1024 }
    /\ nDrags = 0
    /\ AppIdle
    /\ CanvasInit(0)
    /\ OtherIdle

Next ==
    \/ MountUrlEffect
    \/ \E list \in StartLists : ModalStart(list)
    \/ ClearBoard
    \/ \E id \in Ids(words) : TapTile(id)
    \/ \E id \in Ids(words), delta \in DragDeltas : DragTileApp(id, delta)
    \/ GetHints
    \/ HintResolve
    \/ HintReject
    \/ CloseSuggestions
    \/ \E idx \in 0..(Len(suggestions) - 1) : Reveal(idx)
    \/ ManualSubmit

Spec == Init /\ [][Next]_vars

\* the canvas variant after mount: the effect has invoked initApp once
InitCanvas ==
    /\ words = << >>
    /\ selectedIds = {}
    /\ now = 0
    /\ screenW \in ScreenWidths
    /\ nDrags = 0
    /\ AppIdle
    /\ CanvasInit(1)
    /\ OtherIdle

NextCanvas ==
    \/ \E fetched \in DailyLists, tape \in RandomTapes : InitAppResolve(fetched, tape)
    \/ InitAppReject
    \/ Render
    \/ \E p \in PressPoints : FingerDownBackground(p)
    \/ \E id \in Ids(words) : FingerDownTile(id)
    \/ \E p \in Points, sensed \in BOOLEAN : PointerMove(p, sensed)
    \/ \E dist \in Dists : TouchMove(dist)
    \/ \E tileFinger \in BOOLEAN, sensed \in BOOLEAN, delta \in DropDeltas :
          FingerUp(tileFinger, sensed, delta)
    \/ PointerLeave
    \/ \E deltaY \in WheelDeltas, ctrlKey \in BOOLEAN : Wheel(deltaY, ctrlKey)
    \/ ZoomIn
    \/ ZoomOut
    \/ ResetLayout

SpecCanvas == InitCanvas /\ [][NextCanvas]_vars

\* the canvas from before its mount effect
InitMount ==
    /\ words = << >>
    /\ selectedIds = {}
    /\ now = 0
    /\ screenW \in { 1024 }
    /\ nDrags = 0
    /\ AppIdle
    /\ CanvasInit(0)
    /\ OtherIdle

NextMount == MountEffect \/ NextCanvas

SpecMount == InitMount /\ [][NextMount]_vars

\* the canvas with gestures on its first five tiles only
FingerDownTapTile(id) ==
    /\ id \in Ids(words) /\ id[1] \in TapTiles
    /\ PressTile(id)

NextTaps ==
    \/ \E fetched \in DailyLists, tape \in RandomTapes : InitAppResolve(fetched, tape)
    \/ InitAppReject
    \/ \E id \in Ids(words) : FingerDownTapTile(id)
    \/ \E p \in Points, sensed \in BOOLEAN : PointerMove(p, sensed)
    \/ \E tileFinger \in BOOLEAN, sensed \in BOOLEAN, delta \in DropDeltas :
          FingerUp(tileFinger, sensed, delta)

SpecTaps == InitCanvas /\ [][NextTaps]_vars

(***************************************************************************)
(* src/App.tsx with its setup dialog (src/unnamed/part_003) and the share  *)
(* link.  Word lists reach initializeBoard as JavaScript values, so the    *)
(* text of a tile is the value itself.                                     *)
(***************************************************************************)
\* what a handler of the dialog or of the share link leaves alone
OutsideDialog ==
    /\ lastOp' = "" /\ alertMsg' = ""
    /\ UNCHANGED << screenW, nDrags, isLoading, hintCall, canvasVars, call, ret >>

BoardKept ==
    UNCHANGED << words, selectedIds, now, isSetupOpen, suggestions, solvedGroups,
                 boardEpoch, suggFor >>

\* Array.isArray(loadedWords) && loadedWords.length === 16: << >> or << the list >>
SixteenOf(parsed) ==
    IF parsed.ok /\ parsed.v.k = "array" /\ Len(parsed.v.v) = BoardSize
    THEN << parsed.v.v >> ELSE << >>

\* JSON.parse(decoded), decoded the outcome of atob
ParseDecoded(decoded) == IF decoded.ok THEN SixteenOf(JSONParse(decoded.v)) ELSE << >>

\* the URL effect: << >> or << the list it hands to initializeBoard >>, for
\* puzzleData = params.get('p'): << >> when null, else << the string >>
UrlWords(puzzleData) ==
    IF puzzleData = << >> THEN << >>
    ELSE IF puzzleData[1] = << >> THEN << >>
    ELSE ParseDecoded(atob(puzzleData[1]))

\* params.get('p') of a location whose query is << >> (no p) or << the token
\* as written after "p=" >>
ParamOf(query) == IF query = << >> THEN << >> ELSE << SearchParamValue(query[1]) >>

\* useEffect on mount: read the p query parameter
UrlEffect(query) ==
    /\ ~urlChecked
    /\ urlChecked' = TRUE
    /\ \E loaded \in { UrlWords(ParamOf(query)) } :
          IF loaded # << >> THEN LoadBoard(loaded[1]) ELSE BoardKept
    /\ OutsideDialog
    /\ UNCHANGED << modalVars, clipboard >>

\* the textarea's onChange (disabled while isAnalyzing)
TypeText(typed) ==
    /\ urlChecked /\ isSetupOpen /\ ~isAnalyzing
    /\ text' = typed
    /\ BoardKept /\ OutsideDialog
    /\ UNCHANGED << error, isAnalyzing, modalCall, urlChecked, clipboard >>

\* handleParse ("Start Canvas", disabled while isAnalyzing)
handleParse ==
    /\ urlChecked /\ isSetupOpen /\ ~isAnalyzing
    /\ UNCHANGED << text, isAnalyzing, modalCall, urlChecked, clipboard >>
    /\ OutsideDialog
    /\ \E uniqueWords \in { UniqueWords(text) } :
          IF Len(uniqueWords) # 16
          THEN /\ error' = CountMessage(Len(uniqueWords))
               /\ BoardKept
          ELSE /\ LoadBoard(StringArray(uniqueWords).v)
               /\ UNCHANGED error

\* loadPreset ("Demo", disabled while isAnalyzing)
loadPreset ==
    /\ urlChecked /\ isSetupOpen /\ ~isAnalyzing
    /\ text' = JoinLines(PRESET_WORDS)
    /\ error' = << >>
    /\ BoardKept /\ OutsideDialog
    /\ UNCHANGED << isAnalyzing, modalCall, urlChecked, clipboard >>

\* handleLoadDaily up to the await ("Daily", disabled while isAnalyzing)
handleLoadDaily ==
    /\ urlChecked /\ isSetupOpen /\ ~isAnalyzing
    /\ isAnalyzing' = TRUE
    /\ error' = << >>
    /\ modalCall' = << "fetchDailyPuzzle" >>
    /\ BoardKept /\ OutsideDialog
    /\ UNCHANGED << text, urlChecked, clipboard >>

\* the finally blocks of handleLoadDaily and handleFileSelect
AnalysisOver_kept == UNCHANGED isAnalyzing

AnalysisOver == isAnalyzing' = FALSE

\* the strings of an array of strings
StringsOf(items) == [i \in 1..Len(items) |-> items[i].v]

\* handleLoadDaily after the await: fetchDailyPuzzle resolved with { words }
LoadDailyResolve(found) ==
    /\ modalCall = << "fetchDailyPuzzle" >>
    /\ IF Len(found) > 0
       THEN /\ text' = JoinLines(StringsOf(found))
            /\ error' = IF Len(found) = 16 THEN LoadedMessage ELSE FoundCheck(Len(found))
       ELSE /\ error' = DailyNotFound
            /\ UNCHANGED text
    /\ AnalysisOver
    /\ modalCall' = << >>
    /\ BoardKept /\ OutsideDialog
    /\ UNCHANGED << urlChecked, clipboard >>

\* handleLoadDaily, catch block: fetchDailyPuzzle threw
LoadDailyReject ==
    /\ modalCall = << "fetchDailyPuzzle" >>
    /\ error' = DailyFailed
    /\ AnalysisOver
    /\ modalCall' = << >>
    /\ BoardKept /\ OutsideDialog
    /\ UNCHANGED << text, urlChecked, clipboard >>

\* handleFileSelect up to the awaits (the file input's onChange; the "Image"
\* button that opens the file chooser is disabled while isAnalyzing)
handleFileSelect(hasFile) ==
    /\ urlChecked /\ isSetupOpen /\ ~isAnalyzing
    /\ IF hasFile
       THEN /\ isAnalyzing' = TRUE
            /\ error' = << >>
            /\ modalCall' = << "extractWordsFromImage" >>
       ELSE UNCHANGED << isAnalyzing, error, modalCall >>
    /\ BoardKept /\ OutsideDialog
    /\ UNCHANGED << text, urlChecked, clipboard >>

\* x.length: << >> when undefined
LengthOf(x) == IF x.k \in { "array", "string" } THEN << Len(x.v) >> ELSE << >>

\* extractedWords.join("\n")
JoinValues(items) ==
    JoinLines([i \in 1..Len(items) |->
                  IF items[i].k \in { "null", "undefined" } THEN << >>
                  ELSE JSString(items[i])])

\* handleFileSelect after the awaits: extractWordsFromImage resolved.  map and
\* join of a value that is not an array throw a TypeError, which the catch
\* block reports.
FileSelectResolve(extractedWords) ==
    /\ modalCall = << "extractWordsFromImage" >>
    /\ IF Truthy(extractedWords) /\ LengthOf(extractedWords) = << 16 >>
       THEN IF extractedWords.k = "array"
            THEN /\ LoadBoard(extractedWords.v)
                 /\ UNCHANGED << text, error >>
            ELSE /\ error' = ImageFailed
                 /\ BoardKept
                 /\ UNCHANGED text
       ELSE /\ BoardKept
            /\ IF /\ Truthy(extractedWords)
                  /\ LengthOf(extractedWords) # << >>
                  /\ LengthOf(extractedWords)[1] > 0
               THEN IF extractedWords.k = "array"
                    THEN /\ text' = JoinValues(extractedWords.v)
                         /\ error' = FoundVerify(Len(extractedWords.v))
                    ELSE /\ error' = ImageFailed
                         /\ UNCHANGED text
               ELSE /\ error' = ImageNotFound
                    /\ UNCHANGED text
    /\ AnalysisOver
    /\ modalCall' = << >>
    /\ OutsideDialog
    /\ UNCHANGED << urlChecked, clipboard >>

\* handleFileSelect, catch block: the FileReader failed or
\* extractWordsFromImage threw
FileSelectReject ==
    /\ modalCall = << "extractWordsFromImage" >>
    /\ error' = ImageFailed
    /\ AnalysisOver
    /\ modalCall' = << >>
    /\ BoardKept /\ OutsideDialog
    /\ UNCHANGED << text, urlChecked, clipboard >>

\* Controls.onClear with the dialog: reopen the setup dialog
ReopenSetup ==
    /\ urlChecked /\ ~isSetupOpen
    /\ isSetupOpen' = TRUE
    /\ OutsideDialog
    /\ UNCHANGED << words, selectedIds, now, suggestions, solvedGroups, boardEpoch,
                    suggFor, urlChecked, modalVars, clipboard >>

\* handleShare: btoa(JSON.stringify(unique)), the token of the link
ShareToken(ws) == btoa(Stringify(JArr(Unique(Texts(ws)))))

\* handleShare ("Share"): the link written to the clipboard is kept as its
\* token; nothing is written when the board is empty or btoa throws
handleShare ==
    /\ urlChecked
    /\ BoardKept /\ OutsideDialog
    /\ UNCHANGED << urlChecked, modalVars >>
    /\ \E encoded \in { ShareToken(words) } :
          IF words # << >> /\ encoded.ok
          THEN clipboard' = << encoded.v >>
          ELSE UNCHANGED clipboard

\* the browser opens the link on the clipboard: the page is constructed anew
\* and its mount effect reads the token
OpenLink ==
    /\ urlChecked
    /\ clipboard # << >>
    /\ \E loaded \in { UrlWords(ParamOf(clipboard)) } :
          IF loaded # << >>
          THEN /\ words' = initializeBoard(loaded[1], now, screenW)
               /\ isSetupOpen' = FALSE
               /\ boardEpoch' = 1 /\ suggFor' = 1
          ELSE /\ words' = << >>
               /\ isSetupOpen' = TRUE
               /\ boardEpoch' = 0 /\ suggFor' = 0
    /\ selectedIds' = {}
    /\ suggestions' = << >> /\ solvedGroups' = << >>
    /\ isLoading' = FALSE /\ hintCall' = << >>
    /\ text' = << >> /\ error' = << >> /\ isAnalyzing' = FALSE /\ modalCall' = << >>
    /\ lastOp' = "" /\ alertMsg' = ""
    /\ UNCHANGED << now, screenW, nDrags, urlChecked, canvasVars, clipboard, call, ret >>

(***************************************************************************)
(* Functions applied on their own: call holds the function and its         *)
(* argument, ret the value returned.                                       *)
(***************************************************************************)
GroupsName == Str(<< "g", "r", "o", "u", "p", "s" >>)
WordsName == Str(<< "w", "o", "r", "d", "s" >>)

\* a list of words as a JSON array of strings
JWords(list) == JArr([i \in 1..Len(list) |-> JStr(Str(<< list[i] >>))])

\* response texts of the model
HintsJson ==
    Stringify(JObj(<< << GroupsName,
        JArr(<< JObj(<< << Str(<< "g", "r", "o", "u", "p", "N", "a", "m", "e" >>),
                           JStr(Str(<< "G", "1" >>)) >>,
                        << WordsName, JWords(<< "A", "B", "C", "D" >>) >> >>) >>) >> >>))
WordsJson == Stringify(JObj(<< << WordsName, JWords(<< "A", "b" >>) >> >>))
ProseText == Str(<< "S", "o", "r", "r", "y" >>)
TruncatedJson == SubSeq(WordsJson, 1, Len(WordsJson) - 2)
NullJson == Stringify(JNull)
EmptyObjectJson == Str(<< "{", "}" >>)
OtherObjectJson == Stringify(JObj(<< << Str(<< "o", "k" >>), JBool(TRUE) >> >>))
ScalarListsJson ==
    Stringify(JObj(<< << WordsName, JNum(5) >>, << GroupsName, JStr(Str(<< "x" >>)) >> >>))
ProseThenScalar == ProseText \o Str(<< " " >>) \o ScalarListsJson
ProseThenWords == ProseText \o Str(<< " " >>) \o WordsJson
FencedWords == FenceOpenLine \o WordsJson \o LineFence
ArrayJson == Stringify(JWords(<< "A", "b" >>))
MixedArrayJson == Stringify(JArr(<< JNum(1), JNull, JWords(<< "c" >>) >>))

ResponseTexts ==
    { << >>, HintsJson, WordsJson, ProseText, TruncatedJson, NullJson, EmptyObjectJson,
      OtherObjectJson, ScalarListsJson, ProseThenScalar, ProseThenWords, FencedWords,
      ArrayJson, MixedArrayJson }

\* outcomes of ai.models.generateContent
ServiceResponses ==
    { [ok |-> FALSE, text |-> << >>], [ok |-> TRUE, text |-> << >>] }
        \cup { [ok |-> TRUE, text |-> << t >>] : t \in ResponseTexts }

ServiceFunctions == { "getConnectionsHints", "extractWordsFromImage", "fetchDailyPuzzle" }

ServiceCalls ==
    { [fn |-> f, arg |-> [hasKey |-> k, response |-> r]] :
        f \in ServiceFunctions, k \in BOOLEAN, r \in ServiceResponses }

\* largest length of a word list handed to the layout functions
MaxWords == 17

\* word lists of every length up to MaxWords, and sixteen words with one twice
WordList(n) == SubSeq(Distinct16 \o << "Q", "R", "S" >>, 1, n)
WordLists == { WordList(n) : n \in 0..MaxWords } \cup { Dup16 }

LayoutFunctions == { "initializeBoard", "calculateResponsiveLayout" }

LayoutCalls ==
    { [fn |-> f, arg |-> [wordList |-> l, t |-> 0, sw |-> w]] :
        f \in LayoutFunctions, l \in WordLists, w \in ScreenWidths }

\* groups the grouping-suggestion source can name
SolvableGroups ==
    { Group("G1", << "A", "B", "C", "D" >>), Group("G2", << "E", "F", "G", "H" >>),
      Group("G3", << "I", "J", "K", "L" >>), Group("GX", << "A", "B", "C", "ZZ" >>) }

\* applySuggestion and the solved effect, for every board of played and every
\* group not yet solved on it that four of its tiles match
RevealOne(played, sw) ==
    UNION { { [ws |-> OrganizeSolved(lockGroup(p.ws, g, GroupColor(Len(p.solved))),
                                     Append(p.solved, g), sw),
               solved |-> Append(p.solved, g)] :
                g \in { h \in SolvableGroups :
                          h \notin Range(p.solved) /\ Applies(p.ws, h) } } :
            p \in played }

\* boards of src/App.tsx: laid out, up to three groups revealed, the last tile
\* dragged or not
AppBoards(sw) ==
    LET fresh == { [ws |-> initializeBoard(l, 0, sw), solved |-> << >>] :
                     l \in { Distinct16, Dup16 } }
        one == RevealOne(fresh, sw)
        two == RevealOne(one, sw)
        three == RevealOne(two, sw)
        boards == { p.ws : p \in fresh \cup one \cup two \cup three }
    IN  boards \cup { handleDragEndApp(b, << 15, 0 >>, << 7, -3 >>) : b \in boards }

\* boards of part_002: shuffled and laid out, the last tile dragged or not
CanvasBoards(sw) ==
    LET fresh == { calculateResponsiveLayout(shuffle(l, tape), 0, sw) :
                     l \in { Distinct16, Dup16 }, tape \in RandomTapes }
    IN  { f.words : f \in fresh }
           \cup { handleDragEnd(f.words, << 15, 0 >>, << 7, -3 >>, f.viewport.scale) :
                    f \in fresh }

ResetCalls ==
    UNION { { [fn |-> "handleResetPositions", arg |-> [words |-> b, t |-> 1, sw |-> w]] :
                b \in AppBoards(w) }
            \cup { [fn |-> "handleResetLayout", arg |-> [words |-> b, t |-> 1, sw |-> w]] :
                     b \in CanvasBoards(w) } : w \in ScreenWidths }

\* entries of the word list a puzzle response can carry
Repeat(c, n) == [i \in 1..n |-> Code(c)]

RawEntries ==
    { JStr(Str(<< " ", "a", " " >>)), JStr(Str(<< "A" >>)), JStr(<< >>),
      JStr(Str(<< " ", "\t" >>)), JStr(Str(<< "P", "u", "z", "z", "l", "e", " ", "1" >>)),
      JStr(Str(<< "h", "t", "t", "p", ":", "/", "/", "x" >>)),
      JStr(Str(<< "t", "h", "e", " ", "w", "o", "r", "d", "s" >>)),
      JStr(Repeat("X", 24)), JStr(Repeat("Y", 25)), JNum(1), JNull,
      JArr(<< JStr(Str(<< "b" >>)), JStr(Str(<< "A" >>)) >>) }

\* eighteen different words, and nineteen entries with repeats and rejected
\* entries among them
LongRawList == JWords(<< "A", "B", "C", "D", "E", "F", "G", "H", "I",
                         "J", "K", "L", "M", "N", "O", "P", "Q", "R" >>).v

MixedRawList ==
    << JStr(Str(<< "a" >>)), JStr(Str(<< "A" >>)), JStr(Str(<< "h", "t", "t", "p" >>)) >>
        \o SubSeq(LongRawList, 1, 8) \o << JStr(Str(<< "b", " " >>)), JStr(<< >>) >>
        \o SubSeq(LongRawList, 9, 18)

\* the values of words when the sanitization starts
RawLists ==
    { JArr(<< >>), JArr(LongRawList), JArr(SubSeq(LongRawList, 1, 16)),
      JArr(SubSeq(LongRawList, 1, 17)), JArr(MixedRawList), JNum(5) }
        \cup { JArr(<< e >>) : e \in RawEntries }
        \cup { JArr(<< e, f >>) : e, f \in RawEntries }

SanitizationCalls == { [fn |-> "sanitization", arg |-> [found |-> l]] : l \in RawLists }

Calls == ServiceCalls \cup LayoutCalls \cup ResetCalls \cup SanitizationCalls

\* the function call[1].fn returns value
Returns(fn, value) ==
    /\ call[1].fn = fn
    /\ ret = << >>
    /\ ret' = << value >>
    /\ UNCHANGED << words, selectedIds, now, screenW, nDrags, boardVars, lastOp,
                    canvasVars, modalVars, clipboard, call >>

CallGetConnectionsHints ==
    /\ call # << >>
    /\ Returns("getConnectionsHints",
               getConnectionsHints(call[1].arg.hasKey, call[1].arg.response))

CallExtractWordsFromImage ==
    /\ call # << >>
    /\ Returns("extractWordsFromImage",
               extractWordsFromImage(call[1].arg.hasKey, call[1].arg.response))

CallFetchDailyPuzzle ==
    /\ call # << >>
    /\ Returns("fetchDailyPuzzle",
               fetchDailyPuzzle(call[1].arg.hasKey, call[1].arg.response))

CallInitializeBoard ==
    /\ call # << >>
    /\ Returns("initializeBoard",
               initializeBoard(call[1].arg.wordList, call[1].arg.t, call[1].arg.sw))

CallCalculateResponsiveLayout ==
    /\ call # << >>
    /\ Returns("calculateResponsiveLayout",
               calculateResponsiveLayout(call[1].arg.wordList, call[1].arg.t,
                                         call[1].arg.sw))

\* handleResetLayout: the tiles it passes to setWords
handleResetLayout(ws, t, sw) == calculateResponsiveLayout(Texts(ws), t, sw).words

CallHandleResetPositions ==
    /\ call # << >>
    /\ Returns("handleResetPositions",
               handleResetPositions(call[1].arg.words, call[1].arg.sw))

CallHandleResetLayout ==
    /\ call # << >>
    /\ Returns("handleResetLayout",
               handleResetLayout(call[1].arg.words, call[1].arg.t, call[1].arg.sw))

\* fetchDailyPuzzle from the sanitization on
CallSanitization ==
    /\ call # << >>
    /\ Returns("sanitization", SanitizedOrThrown(call[1].arg.found))

InitCalls ==
    /\ words = << >>
    /\ selectedIds = {}
    /\ now = 0
    /\ screenW \in { 1024 }
    /\ nDrags = 0
    /\ AppIdle
    /\ CanvasInit(0)
    /\ ModalIdle
    /\ clipboard = << >>
    /\ call \in { << c >> : c \in Calls }
    /\ ret = << >>

NextCalls ==
    \/ CallGetConnectionsHints
    \/ CallExtractWordsFromImage
    \/ CallFetchDailyPuzzle
    \/ CallInitializeBoard
    \/ CallCalculateResponsiveLayout
    \/ CallHandleResetPositions
    \/ CallHandleResetLayout
    \/ CallSanitization

SpecCalls == InitCalls /\ [][NextCalls]_vars

\* ---- what the environment supplies to the dialog and the link
\* the one-letter words "A", "B", ... as strings
Letters(n) == [i \in 1..n |-> << Code("A") + (i - 1) >>]
\* sixteen strings, the first of them twice
DupLetters == << Letters(1)[1] >> \o Letters(15)
\* sixteen strings, the first of them "~"
TildeLetters == << Str(<< "~" >>) >> \o Letters(15)
\* sixteen numbers
Numbers16 == JArr([i \in 1..16 |-> JNum(i)])

\* the token btoa gives for the JSON text of a value
TokenOf(x) == btoa(Stringify(x)).v

\* queries of the location the page is opened with
UrlQueries ==
    { << >>, << << >> >>,
      << TokenOf(StringArray(Letters(16))) >>,
      << TokenOf(StringArray(Letters(15))) >>,
      << TokenOf(StringArray(Letters(17))) >>,
      << TokenOf(StringArray(DupLetters)) >>,
      << TokenOf(StringArray(TildeLetters)) >>,
      << TokenOf(Numbers16) >>,
      << TokenOf(JObj(<< << WordsName, StringArray(Letters(16)) >> >>)) >>,
      << btoa(ProseText).v >>,
      << << 1 >> >>,
      << << BadChar, 1, 2, 3 >> >> }

\* tokens joined by separators in turn, each followed by sep[i]
RECURSIVE Joined(_, _, _)
Joined(tokens, seps, i) ==
    IF i > Len(tokens) THEN << >>
    ELSE tokens[i]
         \o (IF i < Len(tokens) THEN seps[((i - 1) % Len(seps)) + 1] ELSE << >>)
         \o Joined(tokens, seps, i + 1)

SomeSeparators == << Str(<< ",", " " >>), Str(<< "\n" >>), Str(<< ";" >>), Str(<< ",", "\n" >>) >>

\* token lists the user types
TypedTokens ==
    { Letters(16), Letters(15), Letters(17), Letters(16) \o << Letters(1)[1] >>,
      DupLetters, << Str(<< "a" >>) >> \o Letters(15), << Str(<< "q" >>) >> \o Letters(15),
      TildeLetters, << Str(<< "OMEGA" >>) >> \o Letters(15) }

\* the text typed for a list of tokens
TextOf == [tokens \in TypedTokens |-> Joined(tokens, SomeSeparators, 1)]

TypedTexts == { << >> } \cup { TextOf[tokens] : tokens \in TypedTokens }

\* a response of the image model with sixteen words, one of them twice
Dup16Json == Stringify(JObj(<< << WordsName, StringArray(DupLetters) >> >>))

\* what fetchDailyPuzzle resolves or rejects with
DailyResults ==
    { fetchDailyPuzzle(k, r) : k \in BOOLEAN, r \in ServiceResponses }
        \cup { Returned(StringArray(Letters(16))) }

\* what extractWordsFromImage resolves or rejects with
ImageResults ==
    { extractWordsFromImage(k, r) : k \in BOOLEAN, r \in ServiceResponses }
        \cup { extractWordsFromImage(TRUE, [ok |-> TRUE, text |-> << Dup16Json >>]) }

\* the values the resolved calls hand to the dialog
DailyResolved == { result.v.v : result \in { r \in DailyResults : r.ok } }
ImageResolved == { result.v : result \in { r \in ImageResults : r.ok } }

InitDialog ==
    /\ words = << >>
    /\ selectedIds = {}
    /\ now = 0
    /\ screenW \in { 1024 }
    /\ nDrags = 0
    /\ AppIdle
    /\ CanvasInit(0)
    /\ OtherIdle

NextDialog ==
    \/ \E query \in UrlQueries : UrlEffect(query)
    \/ \E typed \in TypedTexts : TypeText(typed)
    \/ handleParse
    \/ loadPreset
    \/ handleLoadDaily
    \/ \E found \in DailyResolved : LoadDailyResolve(found)
    \/ LoadDailyReject
    \/ \E hasFile \in BOOLEAN : handleFileSelect(hasFile)
    \/ \E extractedWords \in ImageResolved : FileSelectResolve(extractedWords)
    \/ FileSelectReject
    \/ ReopenSetup
    \/ handleShare
    \/ OpenLink

SpecDialog == InitDialog /\ [][NextDialog]_vars

(***************************************************************************)
(* The asynchronous operations of both pages, with the calls they await    *)
(* settling: SpecAsync.  A page is either src/App.tsx with its dialog or   *)
(* the canvas of src/unnamed/part_002, whose mount effect has invoked      *)
(* initApp.                                                                *)
(***************************************************************************)
\* the page is the canvas: initApp is awaiting or has settled
CanvasPage == initCalls > 0 \/ hasInitialized \/ errorMsg # ""

InitAsync == InitDialog \/ InitCanvas

\* the promise of getConnectionsHints settles
HintSettles == HintResolve \/ HintReject

\* the promise of fetchDailyPuzzle awaited by handleLoadDaily settles
DailySettles == (\E found \in DailyResolved : LoadDailyResolve(found)) \/ LoadDailyReject

\* the promises awaited by handleFileSelect settle
FileSettles ==
    (\E extractedWords \in ImageResolved : FileSelectResolve(extractedWords))
        \/ FileSelectReject

\* the promise of fetchDailyPuzzle awaited by initApp settles
InitAppSettles ==
    (\E fetched \in DailyLists, tape \in RandomTapes : InitAppResolve(fetched, tape))
        \/ InitAppReject

NextAsync ==
    \/ \E query \in UrlQueries : ~CanvasPage /\ UrlEffect(query)
    \/ loadPreset
    \/ handleParse
    \/ ReopenSetup
    \/ handleLoadDaily
    \/ \E found \in DailyResolved : LoadDailyResolve(found)
    \/ LoadDailyReject
    \/ \E hasFile \in BOOLEAN : handleFileSelect(hasFile)
    \/ \E extractedWords \in ImageResolved : FileSelectResolve(extractedWords)
    \/ FileSelectReject
    \/ GetHints
    \/ HintResolve
    \/ HintReject
    \/ \E fetched \in DailyLists, tape \in RandomTapes : InitAppResolve(fetched, tape)
    \/ InitAppReject

\* a promise that can settle does settle: the claim is about what follows
\* once the external call has resolved or rejected
SpecAsync ==
    /\ InitAsync
    /\ [][NextAsync]_vars
    /\ WF_vars(HintSettles)
    /\ WF_vars(DailySettles)
    /\ WF_vars(FileSettles)
    /\ WF_vars(InitAppSettles)

\* src/App.tsx with the Grid View button
NextLayout == Next \/ ResetPositions

SpecLayout == Init /\ [][NextLayout]_vars

(***************************************************************************)
(* Every operation on the tiles of both pages: SpecTiles.                  *)
(***************************************************************************)
\* src/App.tsx before mount, or the canvas after mount on a wide screen
InitTiles == Init \/ (InitCanvas /\ screenW = 1024)

\* a tap on one of the first four tiles
TapGroupTile(id) == id[1] < GroupSize /\ TapTile(id)

NextTiles ==
    \/ ~CanvasPage /\ MountUrlEffect
    \/ \E list \in StartLists : ModalStart(list)
    \/ ClearBoard
    \/ \E id \in Ids(words) : TapGroupTile(id)
    \/ \E id \in Ids(words), delta \in DragDeltas : DragTileApp(id, delta)
    \/ \E tape \in ShuffleTapes : ShuffleApp(tape)
    \/ ResetPositions
    \/ GetHints
    \/ HintResolve
    \/ HintReject
    \/ CloseSuggestions
    \/ \E idx \in 0..(Len(suggestions) - 1) : Reveal(idx)
    \/ ManualSubmit
    \/ \E fetched \in DailyLists, tape \in RandomTapes : InitAppResolve(fetched, tape)
    \/ InitAppReject
    \/ Render
    \/ \E p \in PressPoints : FingerDownBackground(p)
    \/ \E id \in Ids(words) : FingerDownTile(id)
    \/ \E p \in Points, sensed \in BOOLEAN : PointerMove(p, sensed)
    \/ \E dist \in Dists : TouchMove(dist)
    \/ \E tileFinger \in BOOLEAN, sensed \in BOOLEAN, delta \in DropDeltas :
          FingerUp(tileFinger, sensed, delta)
    \/ PointerLeave
    \/ \E deltaY \in WheelDeltas, ctrlKey \in BOOLEAN : Wheel(deltaY, ctrlKey)
    \/ ZoomIn
    \/ ZoomOut
    \/ ResetLayout

SpecTiles == InitTiles /\ [][NextTiles]_vars

(***************************************************************************)
(* Properties                                                              *)
(***************************************************************************)
TileOf(ws, id) == TileById(ws, id)

\* C1: the selection set (empty at the start) has at most 4 members after
\* every step; a tap on an unselected tile while 4 are selected leaves the set
\* unchanged, and a tap on a selected tile removes it whatever the size of
\* the set.
C1_SelectionCap ==
    [][/\ Cardinality(selectedIds') <= 4
       /\ \A id \in Ids(words) : TapTile(id) =>
             /\ (id \notin selectedIds /\ Cardinality(selectedIds) = 4
                     => selectedIds' = selectedIds)
             /\ (id \notin selectedIds /\ Cardinality(selectedIds) < 4
                     => selectedIds' = selectedIds \cup {id})
             /\ (id \in selectedIds => selectedIds' = selectedIds \ {id})]_vars

\* C1 witness: a tap has just returned without changing a selection of 4
C1_Witness == lastOp = "tap" /\ Cardinality(selectedIds) = 4

\* C2 (as claimed): every id in the selection set is the id of a tile of the
\* current tile set, also after reset layout has rebuilt the tiles.
C2_SelectionWithinTiles == selectedIds \subseteq Ids(words)

\* C3 (as claimed): a locked tile ignores drag and tap-toggle, so no locked
\* tile is ever in the selection set and no tap on a locked tile changes it.
C3_LockedIgnoresTap ==
    \A i \in 1..Len(words) : words[i].isLocked => words[i].id \notin selectedIds

\* a suggestion of four distinct words that are all on the board
FourOnBoard(s) ==
    /\ Len(s.words) = 4
    /\ Cardinality(Range(s.words)) = 4
    /\ Range(s.words) \subseteq Range(Texts(words))

\* what C7 says of applying suggestion s: exactly its tiles are locked, in one
\* colour, and every other tile keeps isLocked and groupColor
GroupedExactly(s) ==
    /\ Ids(words') = Ids(words)
    /\ \E c \in Range(GROUP_COLORS) :
          \A id \in Ids(words) :
             LET w == TileOf(words, id)
                 v == TileOf(words', id)
             IN  IF w.text \in Range(s.words)
                 THEN v.isLocked /\ v.groupColor = c
                 ELSE v.isLocked = w.isLocked /\ v.groupColor = w.groupColor

\* C7 (as claimed): applying a suggestion whose four words are all on the
\* board locks exactly those four tiles, gives them one groupColor and leaves
\* isLocked and groupColor of every other tile as they were.
C7_AppliesToFour ==
    [][\A idx \in 0..(Len(suggestions) - 1) :
          (Reveal(idx) /\ FourOnBoard(suggestions[idx + 1]))
              => GroupedExactly(suggestions[idx + 1])]_vars

\* C4: viewport.scale is within [0.1, 3] in every state.
C4_ScaleWithinBounds ==
    /\ RLe(Rat(1, 10), viewport.scale)
    /\ RLe(viewport.scale, RI(3))

\* C4 witness: a pinch in progress has driven the scale to its lower bound
C4_Witness ==
    /\ touches = 2
    /\ lastPinchDist # << >>
    /\ viewport.scale = Rat(1, 10)

\* the tiles ws after tile id has moved by delta / s
MovedBy(ws, id, delta, s) ==
    [i \in 1..Len(ws) |->
        IF ws[i].id = id
        THEN [ws[i] EXCEPT !.x = RAdd(@, RDiv(RI(delta[1]), s)),
                           !.y = RAdd(@, RDiv(RI(delta[2]), s))]
        ELSE ws[i]]

\* C5 (as claimed): when a drag completes (is dropped and not cancelled) with
\* nonzero screen delta while the viewport scale is s, the tile moves by
\* delta / s and every other tile is unchanged.
C5_DragMovesByScaledDelta ==
    [][\A delta \in DragDeltas, tileFinger \in BOOLEAN :
          (/\ drag # << >>
           /\ drag[1].phase = "dragging"
           /\ ~cancelDrop(activeTouches)
           /\ FingerUp(tileFinger, TRUE, delta))
              => words' = MovedBy(words, drag[1].id, delta, viewport.scale)]_vars

NotFourMatch(s) ==
    \/ \E k \in 1..Len(s.words) : s.words[k] \notin Range(Texts(words))
    \/ Len(WordsToGroup(words, s)) # 4

\* C8 (as claimed): applying a suggestion that names a word not on the board,
\* or whose words do not match exactly 4 tiles, changes no tile and leaves the
\* solved groups, the suggestions and the selection as they were.
C8_NoMatchNoOp ==
    [][\A idx \in 0..(Len(suggestions) - 1) :
          (Reveal(idx) /\ NotFourMatch(suggestions[idx + 1]))
              => UNCHANGED << words, solvedGroups, suggestions, selectedIds >>]_vars

\* C9 (as claimed): a hint response that arrives after the board was reset is
\* discarded, so the suggestion list never holds suggestions computed for an
\* older board.
C9_StaleHintsDiscarded ==
    suggestions # << >> => suggFor = boardEpoch

\* C10: when the hint call fails, an alert is shown, the request is over, and
\* tiles, selection, suggestions and solved groups are left as they were.
C10_FailureKeepsBoard ==
    [][HintReject =>
          /\ alertMsg' # ""
          /\ ~isLoading' /\ hintCall' = << >>
          /\ UNCHANGED << words, selectedIds, suggestions, solvedGroups >>]_vars

\* C10 witness: the failure alert is shown over a board that still has its
\* suggestions, a solved group and a selection
C10_Witness ==
    /\ alertMsg # ""
    /\ suggestions # << >>
    /\ solvedGroups # << >>
    /\ selectedIds # {}

\* an array of strings
IsStringArray(x) == x.k = "array" /\ \A i \in 1..Len(x.v) : x.v[i].k = "string"

\* the shape the response schema of a service function asks for
ExpectedShape(fn, x) ==
    IF fn = "getConnectionsHints"
    THEN /\ Prop(x, GroupsName).k = "array"
         /\ \A i \in 1..Len(Prop(x, GroupsName).v) :
               IsStringArray(Prop(Prop(x, GroupsName).v[i], WordsName))
    ELSE IsStringArray(Prop(x, WordsName))

\* a response whose text is not JSON or is JSON of another shape
Malformed(fn, response) ==
    LET parsed == JSONParse(TextOr(response, << >>))
    IN  ~parsed.ok \/ ~ExpectedShape(fn, parsed.v)

\* C11 (as claimed): for a malformed response, getConnectionsHints,
\* extractWordsFromImage and fetchDailyPuzzle each return an empty list and
\* do not throw.
C11_MalformedIsEmpty ==
    (/\ ret # << >>
     /\ call[1].fn \in ServiceFunctions
     /\ call[1].arg.hasKey
     /\ call[1].arg.response.ok
     /\ Malformed(call[1].fn, call[1].arg.response))
        => ret[1] = Returned(JArr(<< >>))

\* C12: every asynchronous AI operation returns control: a pending hint
\* request leads to isLoading false, a pending daily-puzzle load of the canvas
\* to isInitializing false, a pending call of the setup dialog to isAnalyzing
\* false, whether the call resolves with a result, with an empty result or
\* rejects.
C12_FlagsClear ==
    /\ (hintCall # << >>) ~> ~isLoading
    /\ (initCalls > 0) ~> ~isInitializing
    /\ (modalCall # << >>) ~> ~isAnalyzing

\* C12 witness: the daily-puzzle search of the dialog has failed and the
\* dialog is interactive again
C12_Witness ==
    /\ error = DailyFailed
    /\ ~isAnalyzing
    /\ modalCall = << >>

\* C13 (as claimed): for any board with tiles, the token handleShare
\* produces, read back by the URL effect, initializes a board with the word
\* list of the sharing board in the same order.
C13_ShareRoundTrip ==
    [][(handleShare /\ words # << >>)
          => UrlWords(ParamOf(clipboard')) = << Texts(words) >>]_vars

\* a parsed JSON array of exactly sixteen strings
SixteenStrings(parsed) ==
    parsed.ok /\ IsStringArray(parsed.v) /\ Len(parsed.v.v) = 16

\* the p token decodes to JSON text of an array of exactly sixteen strings
ValidToken(puzzleData) ==
    /\ puzzleData # << >>
    /\ atob(puzzleData[1]).ok
    /\ SixteenStrings(JSONParse(atob(puzzleData[1]).v))

\* C14 (as claimed): on load the p token initializes the board only when it
\* decodes to a JSON array of exactly 16 strings; for any other token the
\* tile set stays empty and the setup dialog stays open.
C14_OnlySixteenStrings ==
    [][\A query \in UrlQueries :
          (UrlEffect(query) /\ ~ValidToken(ParamOf(query)))
              => words' = << >> /\ isSetupOpen']_vars

\* the words of a list of typed tokens: upper-cased, each once
UpperTokens(tokens) == { ToUpperCase(tokens[i]) : i \in 1..Len(tokens) }

\* C15: handleParse on input whose tokens, separated by commas, newlines and
\* semicolons, are exactly 16 unique words once upper-cased starts the board
\* with those 16 words; on input with 15 or 17 such words it shows a message
\* stating that count and does not start the board.
C15_ParseSixteen ==
    [][\A tokens \in TypedTokens :
          (text = TextOf[tokens] /\ handleParse)
              => IF Cardinality(UpperTokens(tokens)) = 16
                 THEN /\ ~isSetupOpen'
                      /\ Len(words') = 16
                      /\ Range(Texts(words')) = { JStr(w) : w \in UpperTokens(tokens) }
                 ELSE /\ Cardinality(UpperTokens(tokens)) \in { 15, 17 }
                      /\ Includes(error', Str(<< " " >>)
                                          \o Digits(Cardinality(UpperTokens(tokens)))
                                          \o Str(<< "." >>))
                      /\ UNCHANGED << words, isSetupOpen >>]_vars

\* C15 witness: seventeen typed words have been rejected with a message
\* stating 17, the dialog still open over an empty board
C15_Witness ==
    /\ text = TextOf[Letters(17)]
    /\ error = CountMessage(17)
    /\ isSetupOpen
    /\ words = << >>

\* the top strip: the y of the row of group g (0-based)
\* the tiles a layout call returned
LaidOut ==
    IF call[1].fn = "initializeBoard" THEN ret[1] ELSE ret[1].words

\* tile i (0-based) of tiles is in column i mod cols and row i div cols of a
\* grid whose origin is tile 0 and whose pitch is read off tiles 1 and cols
InCell(tiles, i, cols) ==
    LET n == Len(tiles)
        pitchX == IF n > 1 THEN RSub(tiles[2].x, tiles[1].x) ELSE RI(1)
        pitchY == IF n > cols THEN RSub(tiles[cols + 1].y, tiles[1].y) ELSE RI(1)
    IN  /\ ~RLe(pitchX, RI(0))
        /\ ~RLe(pitchY, RI(0))
        /\ tiles[i + 1].x = RAdd(tiles[1].x, RMul(RI(i % cols), pitchX))
        /\ tiles[i + 1].y = RAdd(tiles[1].y, RMul(RI(i \div cols), pitchY))

\* C16: for a word list of length n (0 included), initializeBoard and
\* calculateResponsiveLayout return exactly n tiles, tile i carrying word i at
\* column i mod 4 and row i div 4 of the grid, and no two tiles share a
\* position.
C16_GridCells ==
    (ret # << >> /\ call[1].fn \in LayoutFunctions) =>
        LET wordList == call[1].arg.wordList
            n == Len(wordList)
        IN  /\ Len(LaidOut) = n
            /\ \A i \in 0..(n - 1) :
                  /\ LaidOut[i + 1].text = wordList[i + 1]
                  /\ InCell(LaidOut, i, 4)
            /\ \A i, j \in 1..n :
                  i # j => << LaidOut[i].x, LaidOut[i].y >> # << LaidOut[j].x, LaidOut[j].y >>

\* C16 witness: a list of 17 words laid out, the last tile alone in the fifth
\* row under the first tile
C16_Witness ==
    /\ ret # << >>
    /\ call[1].fn \in LayoutFunctions
    /\ Len(LaidOut) = 17
    /\ LaidOut[17].x = LaidOut[1].x
    /\ LaidOut[17].y # LaidOut[13].y

\* the positions a board gives to each tile text
PositionsByText(ws) == { << ws[i].text, ws[i].x, ws[i].y >> : i \in 1..Len(ws) }

\* C17: reset layout is idempotent in positions: applied to the board a reset
\* has just produced, at the same viewport width, handleResetPositions
\* (src/App.tsx) and handleResetLayout (part_002) give every tile text the
\* position it already has, on boards with and without locked tiles.
C17_ResetIdempotent ==
    (ret # << >>) =>
        /\ call[1].fn = "handleResetPositions" =>
              PositionsByText(handleResetPositions(ret[1], call[1].arg.sw))
                 = PositionsByText(ret[1])
        /\ call[1].fn = "handleResetLayout" =>
              PositionsByText(handleResetLayout(ret[1], call[1].arg.t, call[1].arg.sw))
                 = PositionsByText(ret[1])

\* C17 witness: Grid View has re-gridded a board with two solved groups, one
\* of its tiles dragged away before, the first unlocked tile now under the
\* strip
C17_Witness ==
    /\ ret # << >>
    /\ call[1].fn = "handleResetPositions"
    /\ Cardinality({ i \in 1..Len(ret[1]) : ret[1][i].isLocked }) = 8
    /\ PositionsByText(ret[1]) # PositionsByText(call[1].arg.words)
    /\ ret[1][9].y = RI(300)

StripRow(g) == RI(20 + (g * 90))

\* tile w sits in the strip row of a solved group that names its text
InStrip(w, solved) ==
    \E g \in 0..(Len(solved) - 1) :
        w.y = StripRow(g) /\ w.text \in Range(solved[g + 1].words)

\* C18 (as claimed): after reset layout on a board with solved groups, every
\* locked tile sits in the top strip in the row of its group, and every
\* unlocked tile is strictly below the lowest row of the strip.
C18_StripAboveGrid ==
    [][(ResetPositions /\ solvedGroups # << >>)
          => \A i \in 1..Len(words') :
                IF words'[i].isLocked
                THEN InStrip(words'[i], solvedGroups)
                ELSE ~RLe(words'[i].y, StripRow(Len(solvedGroups) - 1))]_vars

\* C19: pan is pure accumulation: each pointer-move while panning adds the
\* pointer's delta since the last pan point to the viewport offset, without
\* clamping, and leaves the scale alone; so the offset minus the pan point
\* stays what it was at the pointer-down, and after moves with deltas
\* (dx1,dy1)..(dxk,dyk) the offset is (x0 + sum dxi, y0 + sum dyi).
C19_PanAccumulates ==
    [][\A p \in Points, sensed \in BOOLEAN :
          (isPanning /\ PointerMove(p, sensed)) =>
              /\ viewport'.x = RAdd(viewport.x, RI(p[1] - lastPanPoint[1]))
              /\ viewport'.y = RAdd(viewport.y, RI(p[2] - lastPanPoint[2]))
              /\ viewport'.scale = viewport.scale
              /\ RSub(viewport'.x, RI(lastPanPoint'[1])) = RSub(viewport.x, RI(lastPanPoint[1]))
              /\ RSub(viewport'.y, RI(lastPanPoint'[2])) = RSub(viewport.y, RI(lastPanPoint[2]))]_vars

\* C19 witness: two moves by (30,10) while panning have been added up: the
\* offset is (x0 + 60, y0 + 20), the scale as laid out
C19_Witness ==
    LET laidOut == calculateResponsiveLayout(<< >>, 0, screenW).viewport
    IN  /\ isPanning
        /\ nGestures = 2
        /\ lastPanPoint = << 30, 10 >>
        /\ viewport = [x |-> RAdd(laidOut.x, RI(60)), y |-> RAdd(laidOut.y, RI(20)),
                       scale |-> laidOut.scale]

\* C20: pan state machine: panning starts only on a pointer-down outside
\* every tile and ends only on a pointer-up or a pointer-leave; no pointer-up
\* and no pointer-leave (with or without a pointer-down before it) leaves
\* panning on or changes the viewport; no pointer-move while not panning
\* changes the viewport; no pointer-down on a tile changes the viewport or
\* the panning flag.
C20_PanStateMachine ==
    [][/\ (~isPanning /\ isPanning') => \E p \in PressPoints : FingerDownBackground(p)
       /\ (isPanning /\ ~isPanning') =>
             \/ PointerLeave
             \/ \E tileFinger \in BOOLEAN, sensed \in BOOLEAN, delta \in DropDeltas :
                   FingerUp(tileFinger, sensed, delta)
       /\ (isPanning' \/ viewport' # viewport) =>
             /\ ~PointerLeave
             /\ \A tileFinger \in BOOLEAN, sensed \in BOOLEAN, delta \in DropDeltas :
                   ~FingerUp(tileFinger, sensed, delta)
       /\ (viewport' # viewport) =>
             \A p \in Points, sensed \in BOOLEAN : ~(~isPanning /\ PointerMove(p, sensed))
       /\ (viewport' # viewport \/ isPanning' # isPanning) =>
             \A id \in Ids(words) : ~FingerDownTile(id)]_vars

\* C20 witness: a pan has moved the viewport and ended, a finger now presses
\* a tile and has moved without panning
C20_Witness ==
    /\ ~isPanning
    /\ touches = 1
    /\ drag # << >>
    /\ drag[1].phase = "dragging"
    /\ lastPanPoint = << 30, 10 >>
    /\ viewport.x = RAdd(calculateResponsiveLayout(<< >>, 0, screenW).viewport.x, RI(30))


\* the position of tile id on the board ws
PositionOf(ws, id) == << TileById(ws, id).x, TileById(ws, id).y >>

\* a completed drag with movement (dropped by the sensor with a nonzero
\* delta and not cancelled) changes the position of the dragged tile and of
\* no other tile and leaves the selection set alone; a tap changes no tile
TapAndDragFrame ==
    \A tileFinger \in BOOLEAN, sensed \in BOOLEAN, delta \in DropDeltas :
        (drag # << >> /\ FingerUp(tileFinger, sensed, delta)) =>
            /\ (tileFinger /\ drag[1].phase = "pending") => words' = words
            /\ (/\ sensed
                /\ drag[1].phase = "dragging"
                /\ delta # << 0, 0 >>
                /\ ~cancelDrop(activeTouches)) =>
                   /\ PositionOf(words', drag[1].id) # PositionOf(words, drag[1].id)
                   /\ \A i \in 1..Len(words) :
                         words[i].id # drag[1].id => words'[i] = words[i]
                   /\ selectedIds' = selectedIds
            /\ words' # words => selectedIds' = selectedIds

\* C21 (as claimed): a tap on an unlocked tile (the finger lifts before the
\* drag has started) toggles that tile's membership of the selection set and
\* changes no tile position; a completed drag with movement changes that
\* tile's position and not the selection set.
C21_TapToggles ==
    [][/\ TapAndDragFrame
       /\ \A sensed \in BOOLEAN, delta \in DropDeltas :
             (/\ drag # << >>
              /\ drag[1].phase = "pending"
              /\ FingerUp(TRUE, sensed, delta)) =>
                 selectedIds' = IF drag[1].id \in selectedIds
                                THEN selectedIds \ { drag[1].id }
                                ELSE selectedIds \cup { drag[1].id }]_vars

\* C21 (amended): as claimed, except that a tap on an unselected tile while
\* four ids are selected leaves the selection set as it is.
C21_TapTogglesUnlessFull ==
    [][/\ TapAndDragFrame
       /\ \A sensed \in BOOLEAN, delta \in DropDeltas :
             (/\ drag # << >>
              /\ drag[1].phase = "pending"
              /\ FingerUp(TRUE, sensed, delta)) =>
                 selectedIds' = IF drag[1].id \in selectedIds
                                THEN selectedIds \ { drag[1].id }
                                ELSE IF Cardinality(selectedIds) < 4
                                THEN selectedIds \cup { drag[1].id }
                                ELSE selectedIds]_vars

\* C21 witness: four tiles selected by taps, another tile dragged to a new
\* place and dropped, the selection still those four
C21_Witness ==
    /\ Cardinality(selectedIds) = 4
    /\ drag = << >>
    /\ nGestures > 0
    /\ \E i \in 1..Len(words) :
          /\ words[i].id \notin selectedIds
          /\ words[i] # calculateResponsiveLayout(Texts(words), now, screenW).words[i]


\* C22 (as claimed): the selection set is empty right after every group
\* submission (matched or not), after every applied suggestion and after
\* every load of a board.
C22_SelectionCleared ==
    [][/\ ManualSubmit => selectedIds' = {}
       /\ \A idx \in 0..(Len(suggestions) - 1) :
             (Applies(words, suggestions[idx + 1]) /\ Reveal(idx)) => selectedIds' = {}
       /\ \A list \in StartLists : ModalStart(list) => selectedIds' = {}
       /\ (words' # words /\ MountUrlEffect) => selectedIds' = {}]_vars


\* the multiset of the members of a list
BagOf(list) ==
    [t \in Range(list) |-> Cardinality({ i \in 1..Len(list) : list[i] = t })]

\* the tiles ws are one tile per word of list, in some order
OneTilePerWord(ws, list) ==
    /\ Len(ws) = Len(list)
    /\ (Texts(ws) = list \/ BagOf(Texts(ws)) = BagOf(list))

\* the step loads a puzzle: initializeBoard of either page runs
LoadsPuzzle == boardEpoch' # boardEpoch \/ hasInitialized' # hasInitialized

\* C23: every step that is not a puzzle load (drag, tap, shuffle, reset
\* layout or positions, apply suggestion, submit, zoom, pan, ...) keeps the
\* number of tiles and the multiset of tile texts; after a load the tile
\* texts are a permutation of the loaded word list, one tile per word.
C23_TilesPreserved ==
    [][/\ ~LoadsPuzzle => OneTilePerWord(words', Texts(words))
       /\ \A list \in StartLists :
             (boardEpoch' # boardEpoch /\ ModalStart(list)) => OneTilePerWord(words', list)
       /\ (boardEpoch' # boardEpoch /\ MountUrlEffect) =>
             \E list \in UrlPayloads : Len(list) = BoardSize /\ OneTilePerWord(words', list)
       /\ \A fetched \in DailyLists, tape \in RandomTapes :
             (hasInitialized' # hasInitialized /\ InitAppResolve(fetched, tape)) =>
                 /\ Len(fetched) \in 1..16
                 /\ OneTilePerWord(words', fetched)
                 /\ Texts(words') = shuffle(fetched, tape)]_vars

\* C23 witness: on a board with a solved group the unlocked tiles have been
\* shuffled, all sixteen tiles and their texts still there
C23_Witness ==
    /\ Len(solvedGroups) = 1
    /\ nDrags = 1
    /\ OneTilePerWord(words, Distinct16)
    /\ \E i \in 1..Len(words) :
          /\ ~words[i].isLocked
          /\ words[i].x = RI(50)
          /\ words[i].y = RAdd(RI(50), RMul(Random("ramp", 1), RI(ScreenHeight - 300)))


\* the scale a pinch sample must produce: the current scale plus 0.005 times
\* the change of the distance between the two touch points
PinchSum(dist) == RAdd(viewport.scale, Rat((dist - lastPinchDist[1]) * 5, 1000))

\* C24 (as claimed): every two-finger move sample after the first adds
\* 0.005 * (its distance - the previous distance) to the current scale when
\* the sum stays within [MinScale, MaxScale], also when the previous zoom
\* has not been rendered yet; so the scale after samples d0..dk is the
\* scale before the pinch plus 0.005 * (dk - d0).
C24_PinchAccumulates ==
    [][\A dist \in Dists :
          (touches = 2 /\ lastPinchDist # << >> /\ TouchMove(dist)) =>
              ((RLe(MinScale, PinchSum(dist)) /\ RLe(PinchSum(dist), MaxScale)) =>
                  viewport'.scale = PinchSum(dist))]_vars

\* the same for samples handled when no zoom is waiting to be rendered
C24_PinchAccumulatesRendered ==
    [][\A dist \in Dists :
          (touches = 2 /\ lastPinchDist # << >> /\ renderedScale = viewport.scale
             /\ TouchMove(dist)) =>
              ((RLe(MinScale, PinchSum(dist)) /\ RLe(PinchSum(dist), MaxScale)) =>
                  viewport'.scale = PinchSum(dist))]_vars


\* C25 (as claimed): while two touch points are down, no move event
\* (pointermove or touchmove) changes viewport.x or viewport.y; move events
\* change viewport.scale only.
C25_PinchExcludesPan ==
    [][(touches = 2 /\ (viewport'.x # viewport.x \/ viewport'.y # viewport.y)) =>
          /\ ~\E p \in Points, sensed \in BOOLEAN : PointerMove(p, sensed)
          /\ ~\E dist \in Dists : TouchMove(dist)]_vars

\* the touchmove half of C25: handleTouchMove itself never pans
C25_TouchMoveKeepsOrigin ==
    [][(touches = 2 /\ (viewport'.x # viewport.x \/ viewport'.y # viewport.y)) =>
          ~\E dist \in Dists : TouchMove(dist)]_vars


\* C26 (as claimed): the daily puzzle is fetched at most once, and the board
\* is initialized at most once, also when the mount effect runs twice.
C26_InitializedOnce ==
    [][/\ initCalls' > initCalls => initCalls = 0
       /\ (hasInitialized /\ initCalls' < initCalls) =>
             \A fetched \in DailyLists, tape \in RandomTapes :
                 ~(Len(fetched) > 0 /\ InitAppResolve(fetched, tape))]_vars

\* the second half of C26 alone: no initializeBoard once the board is initialized
C26_BoardInitializedOnce ==
    [][(hasInitialized /\ initCalls' < initCalls) =>
          \A fetched \in DailyLists, tape \in RandomTapes :
              ~(Len(fetched) > 0 /\ InitAppResolve(fetched, tape))]_vars


\* the entries of the raw list, flattened and converted, that pass the filter
PassingEntries(found) == SelectSeq(Normalized(Flat(found.v)), Kept)

FirstIndex(list, x) == CHOOSE i \in 1..Len(list) : list[i] = x /\ \A j \in 1..(i - 1) : list[j] # x

\* result is the list of the first occurrences in cand, cut after sixteen
FirstOccurrencePrefix(result, cand) ==
    /\ Len(result) <= 16
    /\ \A i \in 1..Len(result) : result[i] \in Range(cand)
    /\ \A i, k \in 1..Len(result) :
          i < k => FirstIndex(cand, result[i]) < FirstIndex(cand, result[k])
    /\ \A j \in 1..Len(cand) :
          cand[j] \notin Range(result) =>
              /\ Len(result) = 16
              /\ \A i \in 1..Len(result) : FirstIndex(cand, result[i]) < j

\* w is trimmed, upper case, of 1 to 24 characters, without a banned phrase
CleanWord(w) ==
    /\ Len(w) \in 1..24
    /\ ~IsBlank(w[1]) /\ ~IsBlank(w[Len(w)])
    /\ \A i \in 1..Len(w) : w[i] \notin Code("a")..Code("z")
    /\ ~Includes(w, Str(<< "T", "H", "E", " ", "W", "O", "R", "D", "S" >>))
    /\ ~Includes(w, Str(<< "P", "U", "Z", "Z", "L", "E" >>))
    /\ ~Includes(w, Str(<< "H", "T", "T", "P" >>))

\* C27: for every raw word list the list fetchDailyPuzzle returns has at
\* most 16 entries, pairwise distinct, each trimmed, upper case, of length
\* 1 to 24 and without "THE WORDS", "PUZZLE", "HTTP", and it is the
\* first-occurrence-ordered prefix of the raw entries that pass the filter.
C27_Sanitized ==
    (call # << >> /\ ret # << >> /\ call[1].fn = "sanitization"
        /\ call[1].arg.found.k = "array") =>
        /\ ret[1].ok
        /\ LET result == StringsOf(ret[1].v.v)
           IN  /\ Len(result) <= 16
               /\ \A i, k \in 1..Len(result) : i # k => result[i] # result[k]
               /\ \A i \in 1..Len(result) : CleanWord(result[i])
               /\ FirstOccurrencePrefix(result, PassingEntries(call[1].arg.found))

\* C27 witness: nineteen raw entries with a repeat, a banned and an empty
\* entry give the sixteen first words, the seventeenth and eighteenth cut
C27_Witness ==
    /\ call # << >> /\ ret # << >> /\ call[1].fn = "sanitization"
    /\ call[1].arg.found = JArr(MixedRawList)
    /\ ret[1].ok
    /\ Len(PassingEntries(call[1].arg.found)) = 21
    /\ StringsOf(ret[1].v.v) =
          [i \in 1..16 |-> Str(<< SubSeq(UpperCase, 1, 16)[i] >>)]


\* the tiles of solved group k (1-based position in solvedGroups)
TilesOfGroup(k) ==
    { i \in 1..Len(words) : words[i].text \in Range(solvedGroups[k].words) }

\* C28 (as claimed): the tiles of the solved group at position k carry the
\* colour of that group's label, GROUP_COLORS[k], and the tiles of two
\* different solved groups carry different colours.
C28_GroupColours ==
    /\ \A k \in 1..Len(solvedGroups) : \A i \in TilesOfGroup(k) :
          words[i].groupColor = GROUP_COLORS[k]
    /\ \A k, m \in 1..Len(solvedGroups) : \A i \in TilesOfGroup(k), j \in TilesOfGroup(m) :
          k # m => words[i].groupColor # words[j].groupColor

\* the second half of C28 alone, on boards without a repeated word
C28_DistinctColours ==
    (\A i, j \in 1..Len(words) : i # j => words[i].text # words[j].text) =>
        \A k, m \in 1..Len(solvedGroups) : \A i \in TilesOfGroup(k), j \in TilesOfGroup(m) :
            k # m => words[i].groupColor # words[j].groupColor


LockedTiles == { i \in 1..Len(words) : words[i].isLocked }

\* C29, the state half: solved groups share no word, four locked tiles per
\* solved group, at most four solved groups
SolvedGroupsDisjoint ==
    /\ \A k, m \in 1..Len(solvedGroups) :
          k # m => Range(solvedGroups[k].words) \cap Range(solvedGroups[m].words) = {}
    /\ Cardinality(LockedTiles) = 4 * Len(solvedGroups)
    /\ Len(solvedGroups) <= 4

\* C29, the step half: on the same board a locked tile keeps its groupColor
LockedColourKept ==
    boardEpoch' = boardEpoch =>
        \A i \in LockedTiles : words'[i].groupColor = words[i].groupColor

\* C29 (as claimed): in every reachable state the solved groups are pairwise
\* disjoint, the locked tiles number four per solved group and there are at
\* most four solved groups; no step changes the groupColor of a locked tile,
\* also after hints are fetched again.
C29_SolvedGroupsDisjoint == [](SolvedGroupsDisjoint) /\ [][LockedColourKept]_vars

\* C29 on boards without a repeated word
C29_DisjointOnDistinctBoards ==
    (\A i, j \in 1..Len(words) : i # j => words[i].text # words[j].text) =>
        SolvedGroupsDisjoint


\* C30 (as claimed): the texts of the tiles on the board are pairwise
\* distinct in every reachable state, whichever path loaded the board.
C30_TextsDistinct ==
    \A i, j \in 1..Len(words) : i # j => words[i].text # words[j].text


====
